---- MODULE Spec2Model ----
(***************************************************************************)
(* A model of the Monkey interpreter: the token model (token/src/lib.rs),  *)
(* the Pratt parser (parser/src/lib.rs), the AST printer (ast/src/lib.rs), *)
(* the object model and environments (object/src/lib.rs), the evaluator    *)
(* (evaluator/src/lib.rs) and the read-eval-print loop (repl/src/main.rs). *)
(*                                                                         *)
(* The parser and the evaluator are recursive functions over immutable     *)
(* trees; they are modelled as RECURSIVE operators that thread the mutable *)
(* state of the code explicitly: the parser's cursor and error list        *)
(* (record p), the heap of Environment objects (record h).  A Rust panic   *)
(* (an unwrap of None, an index out of range, a division by zero) is the   *)
(* field panic of the threaded state: once set, every caller returns at    *)
(* once, as unwinding does.                                                *)
(***************************************************************************)
EXTENDS Integers, Sequences, FiniteSets, TLC

VARIABLES
    tokens,     \* parser specification: the token stream handed to Parser::new
    parsed,     \* parser specification: what parse_program returned, or NotParsed
    envs,       \* REPL: the heap of Environment objects; envs[1] is the root
    lines,      \* REPL: how many input lines have been read
    crashed,    \* REPL: the process has panicked
    last,       \* REPL: the line last read and what came of it
    lexer,      \* the Lexer over the input being read
    emitted,    \* lexer specification: the tokens next_token has returned
    printed     \* printer specification: the to_string of the first parse

vars == <<tokens, parsed, envs, lines, crashed, last, lexer, emitted, printed>>

----------------------------------------------------------------------------
(* Tokens: token/src/lib.rs *)

Token(token_type, literal) == [token_type |-> token_type, literal |-> literal]

\* The single NUL character that is the literal of EOF.
NUL == "\\0"

EOFToken == Token("EOF", NUL)

Keywords == {"fn", "let", "true", "false", "return", "if", "else"}

lookup_ident(ident) ==
    CASE ident = "fn"     -> "FUNCTION"
      [] ident = "let"    -> "LET"
      [] ident = "true"   -> "TRUE"
      [] ident = "false"  -> "FALSE"
      [] ident = "return" -> "RETURN"
      [] ident = "if"     -> "IF"
      [] ident = "else"   -> "ELSE"
      [] OTHER            -> "IDENT"

\* The decimal literals of the inputs and the i64 each denotes; a digit run
\* that is no key of this table does not fit an i64 (str::parse::<i64> fails).
MaxLiteral == 20

DecimalValue == [s \in {ToString(n) : n \in 0..MaxLiteral} |->
                    CHOOSE n \in 0..MaxLiteral : ToString(n) = s]

\* A digit run beyond i64::MAX.
HugeLiteral == "9223372036854775808"

IsDigits(lexeme) == lexeme \in DOMAIN DecimalValue \/ lexeme = HugeLiteral

\* The token Lexer::next_token produces for one lexeme of the input.
TokenOf(lexeme) ==
    CASE lexeme = ";"  -> Token("SEMICOLON", lexeme)
      [] lexeme = "="  -> Token("ASSIGN", lexeme)
      [] lexeme = "==" -> Token("EQ", lexeme)
      [] lexeme = "+"  -> Token("PLUS", lexeme)
      [] lexeme = "-"  -> Token("MINUS", lexeme)
      [] lexeme = "*"  -> Token("ASTERISK", lexeme)
      [] lexeme = "/"  -> Token("SLASH", lexeme)
      [] lexeme = "<"  -> Token("LT", lexeme)
      [] lexeme = ">"  -> Token("RT", lexeme)
      [] lexeme = "!"  -> Token("BANG", lexeme)
      [] lexeme = "!=" -> Token("NOT_EQ", lexeme)
      [] lexeme = "("  -> Token("LPAREN", lexeme)
      [] lexeme = ")"  -> Token("RPAREN", lexeme)
      [] lexeme = "{"  -> Token("LBRACE", lexeme)
      [] lexeme = "}"  -> Token("RBRACE", lexeme)
      [] lexeme = ","  -> Token("COMMA", lexeme)
      [] lexeme = "%"  -> Token("MODULO", lexeme)
      [] IsDigits(lexeme) -> Token("INT", lexeme)
      [] OTHER -> Token(lookup_ident(lexeme), lexeme)

\* The token stream of a source given lexeme by lexeme.
Toks(lexemes) == [i \in 1..Len(lexemes) |-> TokenOf(lexemes[i])]

----------------------------------------------------------------------------
(* The lexer: lexer/src/lib.rs.                                            *)
(* The input is the sequence of its characters, each a one-character       *)
(* string; the NUL character is the string NUL.  l = [input, position,     *)
(* read_position, ch, panic, hang] is the state of a Lexer: panic is set   *)
(* when an unwrap of None aborts the call, hang when a loop of the call    *)
(* can never leave.                                                        *)

Letters ==
    {"a", "b", "c", "d", "e", "f", "g", "h", "i", "j", "k", "l", "m", "n",
     "o", "p", "q", "r", "s", "t", "u", "v", "w", "x", "y", "z", "A", "B",
     "C", "D", "E", "F", "G", "H", "I", "J", "K", "L", "M", "N", "O", "P",
     "Q", "R", "S", "T", "U", "V", "W", "X", "Y", "Z"}

\* A letter outside ASCII: one char, two bytes of UTF-8.
WideLetter == "é"

Digits == {"0", "1", "2", "3", "4", "5", "6", "7", "8", "9"}

\* char::is_alphabetic
is_alphabetic(ch) == ch \in Letters \/ ch = WideLetter

\* char::is_digit(10)
is_digit(ch) == ch \in Digits

\* char::is_whitespace, or the newline
is_whitespace(ch) == ch \in {" ", "\t", "\n", "\r"}

\* The bytes one char takes in a String.
len_utf8(ch) == IF ch = WideLetter THEN 2 ELSE 1

RECURSIVE ByteLen(_, _)

\* String::len of the chars from index i on: a count of bytes.
ByteLen(input, i) ==
    IF i > Len(input) THEN 0 ELSE len_utf8(input[i]) + ByteLen(input, i + 1)

\* The token of a call that did not return.
NoToken == Token("NONE", "")

LexerPanic(l) == [l EXCEPT !.panic = TRUE]

\* The call made no progress: it aborted or cannot end.
Stuck(l) == l.panic \/ l.hang

read_char(l) ==
    IF l.read_position >= ByteLen(l.input, 1)
    THEN [l EXCEPT !.ch = NUL, !.position = l.read_position,
                   !.read_position = l.read_position + 1]
    ELSE IF l.read_position >= Len(l.input)
    THEN LexerPanic(l)
    ELSE [l EXCEPT !.ch = l.input[l.read_position + 1],
                   !.position = l.read_position,
                   !.read_position = l.read_position + 1]

\* Lexer::new
NewLexer(input) ==
    read_char([input |-> input, position |-> 0, read_position |-> 0,
               ch |-> NUL, panic |-> FALSE, hang |-> FALSE])

\* peek_char, or "panic" where its unwrap fails
peek_char(l) ==
    IF l.read_position >= ByteLen(l.input, 1) THEN NUL
    ELSE IF l.read_position >= Len(l.input) THEN "panic"
    ELSE l.input[l.read_position + 1]

RECURSIVE skip_whitespace(_)

skip_whitespace(l) ==
    IF ~Stuck(l) /\ is_whitespace(l.ch) THEN skip_whitespace(read_char(l))
    ELSE l

\* Lexer::revert_char leaving the cursors where they are.
revert_char_in_place(l) == l

revert_char(l) ==
    [l EXCEPT !.read_position = l.position, !.position = l.position - 1]

\* What a reading function returns: the token and the lexer after it.
Lexed(tok, l) == [tok |-> tok, l |-> l]

RECURSIVE IdentifierLoop(_, _)

IdentifierLoop(l, ident) ==
    IF Stuck(l) THEN Lexed(NoToken, l)
    ELSE IF is_alphabetic(l.ch)
    THEN IdentifierLoop(read_char(l), ident \o l.ch)
    ELSE Lexed(Token("IDENT", ident), revert_char(l))

read_identifier(l) == IdentifierLoop(l, "")

RECURSIVE NumberLoop(_, _)

NumberLoop(l, number) ==
    IF Stuck(l) THEN Lexed(NoToken, l)
    ELSE IF is_digit(l.ch)
    THEN NumberLoop(read_char(l), number \o l.ch)
    ELSE Lexed(Token("INT", number), revert_char(l))

read_number(l) == NumberLoop(l, "")

RECURSIVE StringLoop(_, _)

\* The loop of read_string.  At the end of the input read_char leaves ch
\* NUL and only moves the cursors on, so the loop goes on pushing NUL and
\* never leaves.
StringLoop(l, str) ==
    IF Stuck(l) THEN Lexed(NoToken, l)
    ELSE IF l.ch = "\"" THEN Lexed(Token("STRING", str), l)
    ELSE IF l.ch = NUL /\ l.read_position >= ByteLen(l.input, 1)
    THEN Lexed(NoToken, [l EXCEPT !.hang = TRUE])
    ELSE StringLoop(read_char(l), str \o l.ch)

read_string(l) == StringLoop(read_char(l), "")

\* The token of a keyword or an identifier: lines 69-73.
Word(r) ==
    IF Stuck(r.l) THEN r
    ELSE IF lookup_ident(r.tok.literal) # "IDENT"
    THEN Lexed(Token(lookup_ident(r.tok.literal), r.tok.literal), r.l)
    ELSE r

\* The tokens of one character.
SingleCharTypes ==
    [c \in {";", "+", "-", "*", "/", "<", ">", "(", ")", "{", "}", ",", "%"}
       |-> CASE c = ";" -> "SEMICOLON"
             [] c = "+" -> "PLUS"
             [] c = "-" -> "MINUS"
             [] c = "*" -> "ASTERISK"
             [] c = "/" -> "SLASH"
             [] c = "<" -> "LT"
             [] c = ">" -> "RT"
             [] c = "(" -> "LPAREN"
             [] c = ")" -> "RPAREN"
             [] c = "{" -> "LBRACE"
             [] c = "}" -> "RBRACE"
             [] c = "," -> "COMMA"
             [] c = "%" -> "MODULO"]

\* An arm of NUL whose token has the empty literal.
EndOfInput_with_empty_literal(l) == Lexed(Token("EOF", ""), l)

\* The arm of NUL: the EOF token, its literal the NUL character.
EndOfInput(l) == Lexed(Token("EOF", l.ch), l)

\* The match of next_token without the two-character operators: its value tok.
MatchOther(l) ==
    CASE l.ch \in DOMAIN SingleCharTypes ->
            Lexed(Token(SingleCharTypes[l.ch], l.ch), l)
      [] l.ch = NUL -> EndOfInput(l)
      [] is_alphabetic(l.ch) -> Word(read_identifier(l))
      [] is_digit(l.ch) -> read_number(l)
      [] l.ch = "\"" -> read_string(l)
      [] OTHER -> Lexed(Token("ILLEGAL", l.ch), l)

\* The trailing read_char of next_token and its return.
Finish(r) == IF Stuck(r.l) THEN r ELSE Lexed(r.tok, read_char(r.l))

\* An arm of `=` or `!` that never looks at the next character.
TwoCharArm_without_peek(l, two_type, one_type) ==
    Finish(Lexed(Token(one_type, l.ch), l))

\* The arms of `=` and `!`: with `=` next, both characters are read and the
\* function returns at once.
TwoCharArm(l, two_type, one_type) ==
    IF peek_char(l) = "panic" THEN Lexed(NoToken, LexerPanic(l))
    ELSE IF peek_char(l) = "="
    THEN Lexed(Token(two_type, l.ch \o "="), read_char(read_char(l)))
    ELSE Finish(Lexed(Token(one_type, l.ch), l))

\* next_token after skip_whitespace.
NextTokenAt(l) ==
    IF Stuck(l) THEN Lexed(NoToken, l)
    ELSE IF l.ch = "=" THEN TwoCharArm(l, "EQ", "ASSIGN")
    ELSE IF l.ch = "!" THEN TwoCharArm(l, "NOT_EQ", "BANG")
    ELSE Finish(MatchOther(l))

\* Lexer::next_token
lexer_next_token(l) == NextTokenAt(skip_whitespace(l))

RECURSIVE TokensLoop(_, _)

\* The tokens a caller gets that polls the lexer up to the EOF at the end
\* of the input, that EOF left out; the lexer it is left with.
TokensLoop(r, toks) ==
    IF Stuck(r.l) THEN [toks |-> toks, l |-> r.l]
    ELSE IF r.tok.token_type = "EOF" /\ r.l.position >= ByteLen(r.l.input, 1)
    THEN [toks |-> toks, l |-> r.l]
    ELSE TokensLoop(lexer_next_token(r.l), Append(toks, r.tok))

Tokens(input) == TokensLoop(lexer_next_token(NewLexer(input)), <<>>)

\* The characters of a string.
Chars(s) == [i \in 1..Len(s) |-> SubSeq(s, i, i)]

----------------------------------------------------------------------------
(* AST nodes: ast/src/lib.rs.  An Option that is None is the node None. *)

None == [node_type |-> "NONE"]

Identifier(token, value) ==
    [node_type |-> "IDENTIFIER", token |-> token, value |-> value]

IntegerLiteral(token, value) ==
    [node_type |-> "INTEGER_LITERAL", token |-> token, value |-> value]

StringLiteral(token, value) ==
    [node_type |-> "STRING_LITERAL", token |-> token, value |-> value]

Boolean(token, value) ==
    [node_type |-> "BOOLEAN", token |-> token, value |-> value]

PrefixExpression(token, operator, right) ==
    [node_type |-> "PREFIX_EXPRESSION", token |-> token,
     operator |-> operator, right |-> right]

InfixExpression(token, left, operator, right) ==
    [node_type |-> "INFIX_EXPRESSION", token |-> token, left |-> left,
     operator |-> operator, right |-> right]

IfExpression(token, condition, consequence, alternative) ==
    [node_type |-> "IF_EXPRESSION", token |-> token, condition |-> condition,
     consequence |-> consequence, alternative |-> alternative]

FunctionLiteral(token, parameters, body) ==
    [node_type |-> "FUNCTION_LITERAL", token |-> token,
     parameters |-> parameters, body |-> body]

CallExpression(token, function, arguments) ==
    [node_type |-> "CALL_EXPRESSION", token |-> token,
     function |-> function, arguments |-> arguments]

LetStatement(token, name, value) ==
    [node_type |-> "LET_STATEMENT", token |-> token, name |-> name,
     value |-> value]

ReturnStatement(token, return_value) ==
    [node_type |-> "RETURN_STATEMENT", token |-> token,
     return_value |-> return_value]

ExpressionStatement(token, expression) ==
    [node_type |-> "EXPRESSION_STATEMENT", token |-> token,
     expression |-> expression]

BlockStatement(token, statements) ==
    [node_type |-> "BLOCK_STATEMENT", token |-> token,
     statements |-> statements]

Program(statements) == [node_type |-> "PROGRAM", statements |-> statements]

----------------------------------------------------------------------------
(* The AST printer: the to_string methods of ast/src/lib.rs *)

RECURSIVE to_string(_), JoinNodes(_, _, _)

\* The to_string of the nodes from index i on, separated by sep.
JoinNodes(nodes, i, sep) ==
    IF i > Len(nodes) THEN ""
    ELSE to_string(nodes[i])
           \o (IF i # Len(nodes) THEN sep ELSE "")
           \o JoinNodes(nodes, i + 1, sep)

to_string(node) ==
    CASE node.node_type = "PROGRAM" -> JoinNodes(node.statements, 1, "")
      [] node.node_type = "IDENTIFIER" -> node.value
      [] node.node_type = "EXPRESSION_STATEMENT" ->
            IF node.expression # None THEN to_string(node.expression) ELSE ""
      [] node.node_type = "LET_STATEMENT" ->
            node.token.literal \o " " \o to_string(node.name) \o " = "
              \o (IF node.value # None THEN to_string(node.value) ELSE "")
              \o ";"
      [] node.node_type = "STRING_LITERAL" ->
            "\"" \o node.token.literal \o "\""
      [] node.node_type = "INTEGER_LITERAL" -> node.token.literal
      [] node.node_type = "PREFIX_EXPRESSION" ->
            "(" \o node.operator \o to_string(node.right) \o ")"
      [] node.node_type = "RETURN_STATEMENT" ->
            node.token.literal \o " "
              \o (IF node.return_value # None
                  THEN to_string(node.return_value) ELSE "")
              \o ";"
      [] node.node_type = "BOOLEAN" -> node.token.literal
      [] node.node_type = "INFIX_EXPRESSION" ->
            "(" \o to_string(node.left) \o " " \o node.operator \o " "
              \o to_string(node.right) \o ")"
      [] node.node_type = "IF_EXPRESSION" ->
            "if" \o to_string(node.condition) \o " "
              \o to_string(node.consequence)
              \o (IF node.alternative # None
                  THEN " else " \o to_string(node.alternative) ELSE "")
      [] node.node_type = "BLOCK_STATEMENT" ->
            "{" \o JoinNodes(node.statements, 1, "") \o "}"
      [] node.node_type = "FUNCTION_LITERAL" ->
            node.token.literal \o "(" \o JoinNodes(node.parameters, 1, ", ")
              \o ") " \o to_string(node.body)
      [] node.node_type = "CALL_EXPRESSION" ->
            to_string(node.function) \o "("
              \o JoinNodes(node.arguments, 1, ", ") \o ")"

----------------------------------------------------------------------------
(* The parser: parser/src/lib.rs.                                          *)
(* The lexer hands out the tokens of the input in order and EOF from then  *)
(* on, so the parser's lexer, current_token and peek_token are one cursor  *)
(* pos into the token stream toks: current_token is toks[pos], peek_token  *)
(* is toks[pos + 1].  p = [pos, errors, panic] is the state of the Parser. *)

LOWEST == 1
EQUALS == 2
LESSGREATER == 3
SUM == 4
PRODUCT == 5
PREFIX == 6
CALL == 7

PrefixTokenTypes ==
    {"IDENT", "INT", "STRING", "TRUE", "FALSE", "BANG", "MINUS", "LPAREN",
     "IF", "FUNCTION"}

InfixTokenTypes ==
    {"PLUS", "MINUS", "SLASH", "ASTERISK", "LT", "RT", "EQ", "NOT_EQ",
     "LPAREN", "MODULO", "STRING"}

\* Parser::new: current_token and peek_token are the first two tokens.
NewParser == [pos |-> 1, errors |-> <<>>, panic |-> FALSE]

TokAt(toks, i) == IF i <= Len(toks) THEN toks[i] ELSE EOFToken

CurTok(toks, p) == TokAt(toks, p.pos)

PeekTok(toks, p) == TokAt(toks, p.pos + 1)

next_token(p) == [p EXCEPT !.pos = @ + 1]

\* A panic while the parser runs: the unwrap of a None.
ParserPanic(p) == [p EXCEPT !.panic = TRUE]

current_token_is(toks, p, token_type) ==
    CurTok(toks, p).token_type = token_type

peek_token_is(toks, p, token_type) ==
    PeekTok(toks, p).token_type = token_type

add_peak_error(toks, p, token_type) ==
    [p EXCEPT !.errors = Append(@,
        "expected next token to be " \o token_type \o ", got "
          \o PeekTok(toks, p).token_type \o " instead")]

\* A no_prefix_parse_fn_error that records nothing.
no_prefix_parse_fn_error_unrecorded(p, token_type) == p

no_prefix_parse_fn_error(p, token_type) ==
    [p EXCEPT !.errors = Append(@,
        "no prefix parse function for " \o token_type \o " found")]

\* An expect_peek that moves on to the next token also when it is not the
\* expected one.
expect_peek_advancing(toks, p, token_type) ==
    IF peek_token_is(toks, p, token_type)
    THEN [p |-> next_token(p), ok |-> TRUE]
    ELSE [p |-> next_token(add_peak_error(toks, p, token_type)), ok |-> FALSE]

expect_peek(toks, p, token_type) ==
    IF peek_token_is(toks, p, token_type)
    THEN [p |-> next_token(p), ok |-> TRUE]
    ELSE [p |-> add_peak_error(toks, p, token_type), ok |-> FALSE]

\* get_precedence with the entry of MODULO forgotten.
get_precedence_without_modulo(token_type) ==
    CASE token_type = "EQ"       -> EQUALS
      [] token_type = "NOT_EQ"   -> EQUALS
      [] token_type = "LT"       -> LESSGREATER
      [] token_type = "RT"       -> LESSGREATER
      [] token_type = "PLUS"     -> SUM
      [] token_type = "MINUS"    -> SUM
      [] token_type = "SLASH"    -> PRODUCT
      [] token_type = "ASTERISK" -> PRODUCT
      [] token_type = "LPAREN"   -> CALL
      [] OTHER                   -> LOWEST

get_precedence(token_type) ==
    CASE token_type = "EQ"       -> EQUALS
      [] token_type = "NOT_EQ"   -> EQUALS
      [] token_type = "LT"       -> LESSGREATER
      [] token_type = "RT"       -> LESSGREATER
      [] token_type = "PLUS"     -> SUM
      [] token_type = "MINUS"    -> SUM
      [] token_type = "SLASH"    -> PRODUCT
      [] token_type = "ASTERISK" -> PRODUCT
      [] token_type = "LPAREN"   -> CALL
      [] token_type = "MODULO"   -> PRODUCT
      [] OTHER                   -> LOWEST

\* What a sub-parser returns: the parser state it leaves and its node.
Parsed(p, node) == [p |-> p, node |-> node]

parse_string_literal(toks, p) ==
    Parsed(p, StringLiteral(CurTok(toks, p), CurTok(toks, p).literal))

parse_integer_literal(toks, p) ==
    LET literal == CurTok(toks, p).literal IN
    IF literal \notin DOMAIN DecimalValue
    THEN Parsed([p EXCEPT !.errors = Append(@,
                    "could not parse " \o literal \o " as integer")], None)
    ELSE Parsed(p, IntegerLiteral(CurTok(toks, p), DecimalValue[literal]))

parse_identifier(toks, p) ==
    Parsed(p, Identifier(CurTok(toks, p), CurTok(toks, p).literal))

parse_boolean(toks, p) ==
    Parsed(p, Boolean(CurTok(toks, p), current_token_is(toks, p, "TRUE")))

\* The parsing functions call one another recursively.  A call of one of the
\* three entry points of that recursion (parse_statement, parse_expression,
\* parse_block_statement) is written ParseFn("name", toks, p, precedence);
\* only parse_expression reads the precedence.
RECURSIVE ParseFn(_, _, _, _)

RECURSIVE parse_statement(_, _), parse_expression_statement(_, _),
          parse_let_statement(_, _), parse_return_statement(_, _),
          parse_block_statement(_, _), BlockLoop(_, _, _),
          parse_expression(_, _, _), InfixLoop(_, _, _, _),
          PrefixParseFn(_, _), InfixParseFn(_, _, _),
          parse_prefix_expression(_, _), parse_infix_expression(_, _, _),
          parse_grouped_expression(_, _), parse_if_expression(_, _),
          parse_function_literal(_, _), parse_function_parameters(_, _),
          ParametersLoop(_, _, _), parse_call_expression(_, _, _),
          parse_call_arguments(_, _), ArgumentsLoop(_, _, _)

parse_statement(toks, p) ==
    CASE current_token_is(toks, p, "LET") -> parse_let_statement(toks, p)
      [] current_token_is(toks, p, "RETURN") -> parse_return_statement(toks, p)
      [] current_token_is(toks, p, "LBRACE") ->
            ParseFn("parse_block_statement", toks, p, LOWEST)
      [] OTHER -> parse_expression_statement(toks, p)

\* The optional trailing semicolon of a statement.
SkipSemicolon(toks, p) ==
    IF peek_token_is(toks, p, "SEMICOLON") THEN next_token(p) ELSE p

\* In the functions below, the steps that follow a call are local operators
\* taking the result of the call: StmtOf(e) is the rest of the function once
\* parse_expression has returned e.

parse_expression_statement(toks, p) ==
    LET token == CurTok(toks, p)
        StmtOf(e) ==
            IF e.p.panic THEN Parsed(e.p, None)
            ELSE Parsed(SkipSemicolon(toks, e.p),
                        ExpressionStatement(token, e.node))
    IN StmtOf(ParseFn("parse_expression", toks, p, LOWEST))

parse_let_statement(toks, p) ==
    LET token == CurTok(toks, p)
        LetOf(name, v) ==
            IF v.p.panic THEN Parsed(v.p, None)
            ELSE Parsed(SkipSemicolon(toks, v.p),
                        LetStatement(token, name, v.node))
        LetAssign(name, e2) ==
            IF ~e2.ok THEN Parsed(e2.p, None)
            ELSE LetOf(name, ParseFn("parse_expression", toks,
                                     next_token(e2.p), LOWEST))
        LetName(e1) ==
            IF ~e1.ok THEN Parsed(e1.p, None)
            ELSE LetAssign(Identifier(CurTok(toks, e1.p),
                                      CurTok(toks, e1.p).literal),
                           expect_peek(toks, e1.p, "ASSIGN"))
    IN LetName(expect_peek(toks, p, "IDENT"))

parse_return_statement(toks, p) ==
    LET token == CurTok(toks, p)
        ReturnOf(v) ==
            IF v.p.panic THEN Parsed(v.p, None)
            ELSE Parsed(SkipSemicolon(toks, v.p),
                        ReturnStatement(token, v.node))
    IN ReturnOf(ParseFn("parse_expression", toks, next_token(p), LOWEST))

\* The while loop of parse_block_statement; it returns the statements.
BlockLoop(toks, p, statements) ==
    LET BlockPush(stmt) ==
            IF stmt.p.panic THEN [p |-> stmt.p, list |-> statements]
            ELSE BlockLoop(toks, next_token(stmt.p),
                           IF stmt.node # None
                           THEN Append(statements, stmt.node)
                           ELSE statements)
    IN IF \/ current_token_is(toks, p, "RBRACE")
          \/ current_token_is(toks, p, "EOF")
       THEN [p |-> p, list |-> statements]
       ELSE BlockPush(ParseFn("parse_statement", toks, p, LOWEST))

parse_block_statement(toks, p) ==
    LET token == CurTok(toks, p)
        BlockOf(body) ==
            IF body.p.panic THEN Parsed(body.p, None)
            ELSE Parsed(body.p, BlockStatement(token, body.list))
    IN BlockOf(BlockLoop(toks, next_token(p), <<>>))

\* The prefix_parse_fns table, applied to the current token.
PrefixParseFn(toks, p) ==
    LET t == CurTok(toks, p).token_type IN
    CASE t = "IDENT"    -> parse_identifier(toks, p)
      [] t = "INT"      -> parse_integer_literal(toks, p)
      [] t = "STRING"   -> parse_string_literal(toks, p)
      [] t = "TRUE"     -> parse_boolean(toks, p)
      [] t = "FALSE"    -> parse_boolean(toks, p)
      [] t = "BANG"     -> parse_prefix_expression(toks, p)
      [] t = "MINUS"    -> parse_prefix_expression(toks, p)
      [] t = "LPAREN"   -> parse_grouped_expression(toks, p)
      [] t = "IF"       -> parse_if_expression(toks, p)
      [] t = "FUNCTION" -> parse_function_literal(toks, p)

\* The infix_parse_fns table, applied to the current token.
InfixParseFn(toks, p, left) ==
    IF CurTok(toks, p).token_type = "LPAREN"
    THEN parse_call_expression(toks, p, left)
    ELSE parse_infix_expression(toks, p, left)

\* The while loop of parse_expression.
InfixLoop(toks, p, precedence, left_exp) ==
    LET InfixNext(r) ==
            IF r.p.panic THEN r ELSE InfixLoop(toks, r.p, precedence, r.node)
    IN IF /\ ~peek_token_is(toks, p, "SEMICOLON")
          /\ precedence < get_precedence(PeekTok(toks, p).token_type)
       THEN IF PeekTok(toks, p).token_type \notin InfixTokenTypes
            THEN Parsed(p, left_exp)
            ELSE IF left_exp = None
                 THEN Parsed(ParserPanic(next_token(p)), None)
                 ELSE InfixNext(InfixParseFn(toks, next_token(p), left_exp))
       ELSE Parsed(p, left_exp)

parse_expression(toks, p, precedence) ==
    LET curr_token_type == CurTok(toks, p).token_type
        LeftOf(left_exp) ==
            IF left_exp.p.panic THEN left_exp
            ELSE InfixLoop(toks, left_exp.p, precedence, left_exp.node)
    IN IF curr_token_type \notin PrefixTokenTypes
       THEN Parsed(no_prefix_parse_fn_error(p, curr_token_type), None)
       ELSE LeftOf(PrefixParseFn(toks, p))

parse_prefix_expression(toks, p) ==
    LET operator == CurTok(toks, p).literal
        PrefixOf(right) ==
            CASE right.p.panic -> right
              [] ~right.p.panic /\ right.node = None ->
                   Parsed(ParserPanic(right.p), None)
              [] OTHER ->
                   Parsed(right.p,
                          PrefixExpression(CurTok(toks, right.p), operator,
                                           right.node))
    IN PrefixOf(ParseFn("parse_expression", toks, next_token(p), PREFIX))

parse_infix_expression(toks, p, left) ==
    LET operator == CurTok(toks, p).literal
        token == CurTok(toks, p)
        precedence == get_precedence(CurTok(toks, p).token_type)
        InfixOf(right) ==
            CASE right.p.panic -> right
              [] ~right.p.panic /\ right.node = None ->
                   Parsed(ParserPanic(right.p), None)
              [] OTHER ->
                   Parsed(right.p,
                          InfixExpression(token, left, operator, right.node))
    IN InfixOf(ParseFn("parse_expression", toks, next_token(p), precedence))

parse_grouped_expression(toks, p) ==
    LET GroupClose(exp, e) ==
            IF ~e.ok THEN Parsed(e.p, None) ELSE Parsed(e.p, exp.node)
        GroupOf(exp) ==
            IF exp.p.panic THEN exp
            ELSE GroupClose(exp, expect_peek(toks, exp.p, "RPAREN"))
    IN GroupOf(ParseFn("parse_expression", toks, next_token(p), LOWEST))

parse_if_expression(toks, p) ==
    LET token == CurTok(toks, p)
        IfElseOf(condition, if_body, alternative) ==
            IF alternative.p.panic THEN alternative
            ELSE Parsed(alternative.p,
                        IfExpression(token, condition.node, if_body.node,
                                     alternative.node))
        IfElseBrace(condition, if_body, e4) ==
            IF ~e4.ok THEN Parsed(e4.p, None)
            ELSE IfElseOf(condition, if_body,
                          ParseFn("parse_block_statement", toks, e4.p,
                                  LOWEST))
        IfBodyOf(condition, if_body) ==
            CASE if_body.p.panic -> if_body
              [] ~if_body.p.panic /\ ~peek_token_is(toks, if_body.p, "ELSE") ->
                   Parsed(if_body.p,
                          IfExpression(token, condition.node, if_body.node,
                                       None))
              [] OTHER ->
                   IfElseBrace(condition, if_body,
                               expect_peek(toks, next_token(if_body.p),
                                           "LBRACE"))
        IfBrace(condition, e3) ==
            IF ~e3.ok THEN Parsed(e3.p, None)
            ELSE IfBodyOf(condition,
                          ParseFn("parse_block_statement", toks, e3.p,
                                  LOWEST))
        IfClose(condition, e2) ==
            IF ~e2.ok THEN Parsed(e2.p, None)
            ELSE IfBrace(condition, expect_peek(toks, e2.p, "LBRACE"))
        IfConditionOf(condition) ==
            CASE condition.p.panic -> condition
              [] ~condition.p.panic /\ condition.node = None ->
                   Parsed(ParserPanic(condition.p), None)
              [] OTHER ->
                   IfClose(condition,
                           expect_peek(toks, condition.p, "RPAREN"))
        IfOpen(e1) ==
            IF ~e1.ok THEN Parsed(e1.p, None)
            ELSE IfConditionOf(ParseFn("parse_expression", toks,
                                       next_token(e1.p), LOWEST))
    IN IfOpen(expect_peek(toks, p, "LPAREN"))

\* The while loop of parse_function_parameters.
ParametersLoop(toks, p, identifiers) ==
    LET ParametersPush(p2) ==
            ParametersLoop(toks, p2,
                Append(identifiers,
                       Identifier(CurTok(toks, p2), CurTok(toks, p2).literal)))
    IN IF peek_token_is(toks, p, "COMMA")
       THEN ParametersPush(next_token(next_token(p)))
       ELSE [p |-> p, list |-> identifiers]

parse_function_parameters(toks, p) ==
    LET ParametersClose(rest, e) ==
            IF ~e.ok THEN [p |-> e.p, list |-> <<>>]
            ELSE [p |-> e.p, list |-> rest.list]
        ParametersRest(rest) ==
            ParametersClose(rest, expect_peek(toks, rest.p, "RPAREN"))
        ParametersFirst(p1) ==
            ParametersRest(
                ParametersLoop(toks, p1,
                    <<Identifier(CurTok(toks, p1), CurTok(toks, p1).literal)>>))
    IN IF peek_token_is(toks, p, "RPAREN")
       THEN [p |-> next_token(p), list |-> <<>>]
       ELSE ParametersFirst(next_token(p))

parse_function_literal(toks, p) ==
    LET token == CurTok(toks, p)
        FunctionOf(parameters, body) ==
            IF body.p.panic THEN body
            ELSE Parsed(body.p,
                        FunctionLiteral(token, parameters.list, body.node))
        FunctionBrace(parameters, e2) ==
            IF ~e2.ok THEN Parsed(e2.p, None)
            ELSE FunctionOf(parameters,
                            ParseFn("parse_block_statement", toks, e2.p,
                                    LOWEST))
        FunctionParameters(parameters) ==
            FunctionBrace(parameters,
                          expect_peek(toks, parameters.p, "LBRACE"))
        FunctionOpen(e1) ==
            IF ~e1.ok THEN Parsed(e1.p, None)
            ELSE FunctionParameters(parse_function_parameters(toks, e1.p))
    IN FunctionOpen(expect_peek(toks, p, "LPAREN"))

\* The while loop of parse_call_arguments.
ArgumentsLoop(toks, p, args) ==
    LET ArgumentsPush(arg) ==
            CASE arg.p.panic -> [p |-> arg.p, list |-> args]
              [] ~arg.p.panic /\ arg.node = None ->
                   [p |-> ParserPanic(arg.p), list |-> args]
              [] OTHER -> ArgumentsLoop(toks, arg.p, Append(args, arg.node))
    IN IF peek_token_is(toks, p, "COMMA")
       THEN ArgumentsPush(ParseFn("parse_expression", toks,
                                  next_token(next_token(p)), LOWEST))
       ELSE [p |-> p, list |-> args]

parse_call_arguments(toks, p) ==
    LET ArgumentsClose(rest, e) ==
            IF ~e.ok THEN [p |-> e.p, list |-> <<>>]
            ELSE [p |-> e.p, list |-> rest.list]
        ArgumentsRest(rest) ==
            IF rest.p.panic THEN rest
            ELSE ArgumentsClose(rest, expect_peek(toks, rest.p, "RPAREN"))
        ArgumentsFirst(arg) ==
            CASE arg.p.panic -> [p |-> arg.p, list |-> <<>>]
              [] ~arg.p.panic /\ arg.node = None ->
                   [p |-> ParserPanic(arg.p), list |-> <<>>]
              [] OTHER -> ArgumentsRest(ArgumentsLoop(toks, arg.p,
                                                      <<arg.node>>))
    IN IF peek_token_is(toks, p, "RPAREN")
       THEN [p |-> next_token(p), list |-> <<>>]
       ELSE ArgumentsFirst(ParseFn("parse_expression", toks, next_token(p),
                                   LOWEST))

parse_call_expression(toks, p, function) ==
    LET token == CurTok(toks, p)
        CallOf(arguments) ==
            IF arguments.p.panic THEN Parsed(arguments.p, None)
            ELSE Parsed(arguments.p,
                        CallExpression(token, function, arguments.list))
    IN CallOf(parse_call_arguments(toks, p))

ParseFn(fn, toks, p, precedence) ==
    CASE fn = "parse_statement" -> parse_statement(toks, p)
      [] fn = "parse_expression" -> parse_expression(toks, p, precedence)
      [] fn = "parse_block_statement" -> parse_block_statement(toks, p)

RECURSIVE ProgramLoop(_, _, _)

\* The while loop of parse_program.
ProgramLoop(toks, p, statements) ==
    LET ProgramPush(stmt) ==
            IF stmt.p.panic THEN [p |-> stmt.p, list |-> statements]
            ELSE ProgramLoop(toks, next_token(stmt.p),
                             IF stmt.node # None
                             THEN Append(statements, stmt.node)
                             ELSE statements)
    IN IF current_token_is(toks, p, "EOF")
       THEN [p |-> p, list |-> statements]
       ELSE ProgramPush(ParseFn("parse_statement", toks, p, LOWEST))

\* Parser::new followed by parse_program and errors(): the Program, the
\* error list, and whether the parser panicked instead of returning.
parse_program(toks) ==
    LET ProgramOf(r) ==
            [program |-> Program(r.list), errors |-> r.p.errors,
             panic |-> r.p.panic]
    IN ProgramOf(ProgramLoop(toks, NewParser, <<>>))

----------------------------------------------------------------------------
(* Objects and environments: object/src/lib.rs.                            *)
(* An Rc<RefCell<Environment>> is an index into the heap h.envs of scopes; *)
(* a scope is a function from names to objects (the HashMap).  The field   *)
(* outer of Environment is never set by the code and is left out.          *)

Integer(value) == [type |-> "INTEGER", value |-> value]

BooleanObj(value) == [type |-> "BOOLEAN", value |-> value]

StringObj(value) == [type |-> "STRING", value |-> value]

Null == [type |-> "NULL"]

Error(message) == [type |-> "ERROR", message |-> message]

ReturnValue(value) == [type |-> "RETURN_VALUE", value |-> value]

Function(parameters, body, env) ==
    [type |-> "FUNCTION", parameters |-> parameters, body |-> body,
     env |-> env]

\* An Option<Rc<dyn Object>> that is None.
NoObject == [type |-> "NONE"]

\* Environment::new: no bindings.
EmptyScope == [name \in {} |-> Null]

\* The heap at the start of repl() and run_file(): the root environment.
NewHeap == [envs |-> <<EmptyScope>>, panic |-> FALSE]

RootEnv == 1

\* A panic while the evaluator runs.
EvalPanic(h) == [h EXCEPT !.panic = TRUE]

\* Environment::new_enclosed handing out the outer environment itself
\* instead of a copy of its bindings.
new_enclosed_sharing(outer, h) == [env |-> outer, h |-> h]

\* Environment::new_enclosed: a new environment holding a copy of the
\* bindings outer has at this moment.
new_enclosed(outer, h) ==
    [env |-> Len(h.envs) + 1,
     h |-> [h EXCEPT !.envs = Append(@, h.envs[outer])]]

\* Environment::get: the binding of name in this environment's own scope.
get(h, env, name) ==
    IF name \in DOMAIN h.envs[env] THEN h.envs[env][name] ELSE NoObject

\* Environment::set keeping the binding a name already has.
set_keeping(h, env, name, value) ==
    IF name \in DOMAIN h.envs[env] THEN h
    ELSE [h EXCEPT !.envs[env] = (name :> value) @@ @]

\* Environment::set: insert or overwrite in this environment's own scope.
set(h, env, name, value) ==
    [h EXCEPT !.envs[env] = (name :> value) @@ @]

----------------------------------------------------------------------------
(* The evaluator: evaluator/src/lib.rs *)

\* What an evaluation returns: its object and the heap it leaves.
Evaluated(obj, h) == [obj |-> obj, h |-> h]

\* The marker of a panic inside an operator (a division by zero).
PanicObj == [type |-> "PANIC"]

Abs(n) == IF n < 0 THEN -n ELSE n

\* The / and % of i64: the quotient truncates toward zero and the remainder
\* takes the sign of the dividend.
TruncDiv(a, b) ==
    IF (a < 0) = (b < 0) THEN Abs(a) \div Abs(b) ELSE -(Abs(a) \div Abs(b))

TruncRem(a, b) == a - b * TruncDiv(a, b)

evaluate_bang_operator_expression(right) ==
    CASE right.type = "BOOLEAN" ->
            IF right.value THEN BooleanObj(FALSE) ELSE BooleanObj(TRUE)
      [] right.type = "NULL" -> BooleanObj(TRUE)
      [] OTHER -> BooleanObj(FALSE)

evaluate_minus_prefix_operator_expression(right) ==
    IF right.type = "INTEGER" THEN Integer(-right.value)
    ELSE Error("unknown operator: -" \o right.type)

evaluate_prefix_expression(operator, right) ==
    CASE operator = "!" -> evaluate_bang_operator_expression(right)
      [] operator = "-" -> evaluate_minus_prefix_operator_expression(right)
      [] OTHER -> Null

UnknownOperator(operator, left, right) ==
    Error("unknown operator: " \o left.type \o " " \o operator \o " "
            \o right.type)

evaluate_integer_infix_expression(operator, left, right) ==
    CASE operator = "+" -> Integer(left.value + right.value)
      [] operator = "-" -> Integer(left.value - right.value)
      [] operator = "*" -> Integer(left.value * right.value)
      [] operator = "/" ->
            IF right.value = 0 THEN PanicObj
            ELSE Integer(TruncDiv(left.value, right.value))
      [] operator = "<" -> BooleanObj(left.value < right.value)
      [] operator = ">" -> BooleanObj(left.value > right.value)
      [] operator = "==" -> BooleanObj(left.value = right.value)
      [] operator = "!=" -> BooleanObj(left.value # right.value)
      [] operator = "%" ->
            IF right.value = 0 THEN PanicObj
            ELSE Integer(TruncRem(left.value, right.value))
      [] OTHER -> UnknownOperator(operator, left, right)

evaluate_string_concatenation(left, right) ==
    StringObj(left.value \o right.value)

evaluate_boolean_infix_expression(operator, left, right) ==
    CASE operator = "==" -> BooleanObj(left.value = right.value)
      [] operator = "!=" -> BooleanObj(left.value # right.value)
      [] OTHER -> UnknownOperator(operator, left, right)

\* An evaluate_infix_expression without the test for operands of different
\* kinds.
evaluate_infix_expression_without_mismatch(operator, left, right) ==
    CASE left.type = "STRING" /\ right.type = "STRING" /\ operator = "+" ->
            evaluate_string_concatenation(left, right)
      [] left.type = "INTEGER" /\ right.type = "INTEGER" ->
            evaluate_integer_infix_expression(operator, left, right)
      [] left.type = "BOOLEAN" /\ right.type = "BOOLEAN" ->
            evaluate_boolean_infix_expression(operator, left, right)
      [] OTHER -> UnknownOperator(operator, left, right)

evaluate_infix_expression(operator, left, right) ==
    CASE left.type = "STRING" /\ right.type = "STRING" /\ operator = "+" ->
            evaluate_string_concatenation(left, right)
      [] left.type = "INTEGER" /\ right.type = "INTEGER" ->
            evaluate_integer_infix_expression(operator, left, right)
      [] left.type = "BOOLEAN" /\ right.type = "BOOLEAN" ->
            evaluate_boolean_infix_expression(operator, left, right)
      [] OTHER ->
            IF left.type # right.type
            THEN Error("type mismatch: " \o left.type \o " " \o operator
                         \o " " \o right.type)
            ELSE UnknownOperator(operator, left, right)

\* A truthiness in which the integer 0 and the empty string are falsy too.
is_truthy_with_zero_falsy(obj) ==
    CASE obj.type = "NULL" -> FALSE
      [] obj.type = "BOOLEAN" -> obj.value
      [] obj.type = "INTEGER" -> obj.value # 0
      [] obj.type = "STRING" -> obj.value # ""
      [] OTHER -> TRUE

is_truthy(obj) ==
    CASE obj.type = "NULL" -> FALSE
      [] obj.type = "BOOLEAN" -> obj.value
      [] OTHER -> TRUE

unwrap_return_value(obj) ==
    IF obj.type = "RETURN_VALUE" THEN obj.value ELSE obj

RECURSIVE ExtendLoop(_, _, _, _, _)

\* The for loop of extend_function_env: bind the parameters from index i on.
ExtendLoop(parameters, args, i, env, h) ==
    IF i > Len(parameters) THEN h
    ELSE IF i > Len(args) THEN EvalPanic(h)
         ELSE ExtendLoop(parameters, args, i + 1, env,
                         set(h, env, parameters[i].value, args[i]))

\* A variant of extend_function_env that encloses the root environment, the
\* caller's side, instead of the environment the function captured.
extend_function_env_of_root(func, args, h) ==
    LET Extended(e) ==
            [env |-> e.env,
             h |-> ExtendLoop(func.parameters, args, 1, e.env, e.h)]
    IN Extended(new_enclosed(RootEnv, h))

extend_function_env(func, args, h) ==
    LET Extended(e) ==
            [env |-> e.env,
             h |-> ExtendLoop(func.parameters, args, 1, e.env, e.h)]
    IN Extended(new_enclosed(func.env, h))

\* The evaluating functions call one another recursively.  A call of one of
\* the three entry points of that recursion (evaluate_statement,
\* evaluate_expression, evaluate_block_statement) is written
\* EvalFn("name", node, env, h).
RECURSIVE EvalFn(_, _, _, _)

RECURSIVE evaluate_statement(_, _, _), evaluate_expression(_, _, _),
          evaluate_block_statement(_, _, _), BlockEvalLoop(_, _, _, _, _),
          apply_function(_, _, _), evaluate_expressions(_, _, _),
          ExpressionsLoop(_, _, _, _, _)

evaluate_statement(statement, env, h) ==
    LET LetOf(value) ==
            IF value.h.panic \/ value.obj.type = "ERROR" THEN value
            ELSE Evaluated(Null, set(value.h, env, statement.name.value,
                                     value.obj))
        ReturnOf(value) ==
            IF value.h.panic \/ value.obj.type = "ERROR" THEN value
            ELSE Evaluated(ReturnValue(value.obj), value.h)
        BlockIn(block_env) ==
            EvalFn("evaluate_block_statement", statement, block_env.env,
                   block_env.h)
    IN CASE statement.node_type = "EXPRESSION_STATEMENT" ->
              IF statement.expression = None
              THEN Evaluated(Null, EvalPanic(h))
              ELSE EvalFn("evaluate_expression", statement.expression, env, h)
         [] statement.node_type = "LET_STATEMENT" ->
              IF statement.value = None THEN Evaluated(Null, EvalPanic(h))
              ELSE LetOf(EvalFn("evaluate_expression", statement.value, env,
                                h))
         [] statement.node_type = "RETURN_STATEMENT" ->
              IF statement.return_value = None
              THEN Evaluated(Null, EvalPanic(h))
              ELSE ReturnOf(EvalFn("evaluate_expression",
                                   statement.return_value, env, h))
         [] statement.node_type = "BLOCK_STATEMENT" ->
              BlockIn(new_enclosed(env, h))
         [] OTHER -> Evaluated(Null, h)

evaluate_expression(exp, env, h) ==
    LET IdentifierOf(obj) ==
            IF obj # NoObject THEN Evaluated(obj, h)
            ELSE Evaluated(Error("identifier not found: " \o exp.value), h)
        PrefixOf(right) ==
            IF right.h.panic \/ right.obj.type = "ERROR" THEN right
            ELSE Evaluated(evaluate_prefix_expression(exp.operator, right.obj),
                           right.h)
        InfixValue(right, value) ==
            IF value = PanicObj THEN Evaluated(Null, EvalPanic(right.h))
            ELSE Evaluated(value, right.h)
        InfixRight(left, right) ==
            IF right.h.panic \/ right.obj.type = "ERROR" THEN right
            ELSE InfixValue(right,
                            evaluate_infix_expression(exp.operator, left.obj,
                                                      right.obj))
        InfixLeft(left) ==
            IF left.h.panic \/ left.obj.type = "ERROR" THEN left
            ELSE InfixRight(left,
                            EvalFn("evaluate_expression", exp.right, env,
                                   left.h))
        IfOf(condition) ==
            IF condition.h.panic \/ condition.obj.type = "ERROR"
            THEN condition
            ELSE IF is_truthy(condition.obj)
                 THEN EvalFn("evaluate_block_statement", exp.consequence, env,
                             condition.h)
                 ELSE IF exp.alternative # None
                      THEN EvalFn("evaluate_block_statement", exp.alternative,
                                  env, condition.h)
                      ELSE Evaluated(Null, condition.h)
        CallArgs(function, args) ==
            IF args.h.panic THEN Evaluated(Null, args.h)
            ELSE IF Len(args.list) = 1 /\ args.list[1].type = "ERROR"
                 THEN Evaluated(args.list[1], args.h)
                 ELSE apply_function(function.obj, args.list, args.h)
        CallOf(function) ==
            IF function.h.panic \/ function.obj.type = "ERROR" THEN function
            ELSE CallArgs(function,
                          evaluate_expressions(exp.arguments, env, function.h))
    IN CASE exp.node_type = "IDENTIFIER" ->
              IdentifierOf(get(h, env, exp.value))
         [] exp.node_type = "INTEGER_LITERAL" ->
              Evaluated(Integer(exp.value), h)
         [] exp.node_type = "STRING_LITERAL" ->
              Evaluated(StringObj(exp.value), h)
         [] exp.node_type = "BOOLEAN" ->
              IF exp.value THEN Evaluated(BooleanObj(TRUE), h)
              ELSE Evaluated(BooleanObj(FALSE), h)
         [] exp.node_type = "PREFIX_EXPRESSION" ->
              PrefixOf(EvalFn("evaluate_expression", exp.right, env, h))
         [] exp.node_type = "INFIX_EXPRESSION" ->
              InfixLeft(EvalFn("evaluate_expression", exp.left, env, h))
         [] exp.node_type = "IF_EXPRESSION" ->
              IfOf(EvalFn("evaluate_expression", exp.condition, env, h))
         [] exp.node_type = "FUNCTION_LITERAL" ->
              Evaluated(Function(exp.parameters, exp.body, env), h)
         [] exp.node_type = "CALL_EXPRESSION" ->
              CallOf(EvalFn("evaluate_expression", exp.function, env, h))
         [] OTHER -> Evaluated(Null, h)

\* The for loop of evaluate_block_statement.
BlockEvalLoop(statements, i, env, h, result) ==
    LET BlockStep(evaluated) ==
            IF evaluated.h.panic THEN evaluated
            ELSE IF evaluated.obj.type \in {"RETURN_VALUE", "ERROR"}
                 THEN evaluated
                 ELSE BlockEvalLoop(statements, i + 1, env, evaluated.h,
                                    evaluated.obj)
    IN IF i > Len(statements) THEN Evaluated(result, h)
       ELSE BlockStep(EvalFn("evaluate_statement", statements[i], env, h))

evaluate_block_statement(stmt, env, h) ==
    LET BlockFirst(result) ==
            IF result.h.panic THEN result
            ELSE BlockEvalLoop(stmt.statements, 1, env, result.h, result.obj)
    IN IF Len(stmt.statements) = 0 THEN Evaluated(Null, EvalPanic(h))
       ELSE BlockFirst(EvalFn("evaluate_statement", stmt.statements[1], env,
                              h))

\* apply_function without the Error for a callee that is not a Function:
\* such a callee gives Null.
apply_function_of_anything(func, args, h) ==
    LET Applied(evaluated) ==
            IF evaluated.h.panic THEN evaluated
            ELSE Evaluated(unwrap_return_value(evaluated.obj), evaluated.h)
        ApplyIn(extended_env) ==
            IF extended_env.h.panic THEN Evaluated(Null, extended_env.h)
            ELSE Applied(EvalFn("evaluate_statement", func.body,
                                extended_env.env, extended_env.h))
    IN IF func.type = "FUNCTION"
       THEN ApplyIn(extend_function_env(func, args, h))
       ELSE Evaluated(Null, h)

apply_function(func, args, h) ==
    LET Applied(evaluated) ==
            IF evaluated.h.panic THEN evaluated
            ELSE Evaluated(unwrap_return_value(evaluated.obj), evaluated.h)
        ApplyIn(extended_env) ==
            IF extended_env.h.panic THEN Evaluated(Null, extended_env.h)
            ELSE Applied(EvalFn("evaluate_statement", func.body,
                                extended_env.env, extended_env.h))
    IN IF func.type = "FUNCTION"
       THEN ApplyIn(extend_function_env(func, args, h))
       ELSE Evaluated(Error("not a function: " \o func.type), h)

\* The for loop of evaluate_expressions.
ExpressionsLoop(exps, i, env, h, result) ==
    LET ExpressionsStep(evaluated) ==
            IF evaluated.h.panic THEN [list |-> <<>>, h |-> evaluated.h]
            ELSE IF evaluated.obj.type = "ERROR"
                 THEN [list |-> <<evaluated.obj>>, h |-> evaluated.h]
                 ELSE ExpressionsLoop(exps, i + 1, env, evaluated.h,
                                      Append(result, evaluated.obj))
    IN IF i > Len(exps) THEN [list |-> result, h |-> h]
       ELSE ExpressionsStep(EvalFn("evaluate_expression", exps[i], env, h))

\* A variant of evaluate_expressions that evaluates every expression and
\* keeps going after an Error.
evaluate_expressions_without_stop(exps, env, h) ==
    [list |-> [i \in 1..Len(exps) |->
                 EvalFn("evaluate_expression", exps[i], env, h).obj],
     h |-> h]

evaluate_expressions(exps, env, h) == ExpressionsLoop(exps, 1, env, h, <<>>)

EvalFn(fn, node, env, h) ==
    CASE fn = "evaluate_statement" -> evaluate_statement(node, env, h)
      [] fn = "evaluate_expression" -> evaluate_expression(node, env, h)
      [] fn = "evaluate_block_statement" ->
            evaluate_block_statement(node, env, h)

RECURSIVE ProgramEvalLoop_without_stop(_, _, _, _, _)

\* A variant of the loop of evaluate_program that evaluates every statement
\* and returns the value of the last one.
ProgramEvalLoop_without_stop(statements, i, env, h, result) ==
    LET ProgramStep(evaluated) ==
            IF evaluated.h.panic THEN Evaluated(NoObject, evaluated.h)
            ELSE ProgramEvalLoop_without_stop(statements, i + 1, env,
                                              evaluated.h, evaluated.obj)
    IN IF i > Len(statements) THEN Evaluated(result, h)
       ELSE ProgramStep(EvalFn("evaluate_statement", statements[i], env, h))

RECURSIVE ProgramEvalLoop(_, _, _, _, _)

\* The for loop of evaluate_program.
ProgramEvalLoop(statements, i, env, h, result) ==
    LET ProgramStep(evaluated) ==
            IF evaluated.h.panic THEN Evaluated(NoObject, evaluated.h)
            ELSE CASE evaluated.obj.type = "RETURN_VALUE" ->
                        Evaluated(evaluated.obj.value, evaluated.h)
                   [] evaluated.obj.type = "ERROR" ->
                        Evaluated(Error(evaluated.obj.message), evaluated.h)
                   [] OTHER ->
                        ProgramEvalLoop(statements, i + 1, env, evaluated.h,
                                        evaluated.obj)
    IN IF i > Len(statements) THEN Evaluated(result, h)
       ELSE ProgramStep(EvalFn("evaluate_statement", statements[i], env, h))

\* evaluate_program: the Option it returns (NoObject is None) and the heap.
evaluate_program(program, env, h) ==
    ProgramEvalLoop(program.statements, 1, env, h, NoObject)

----------------------------------------------------------------------------
(* The parser specification: Parser::new and parse_program applied to a    *)
(* token stream drawn from ParserInputs.                                   *)

MaxOps == 3

BinaryOperators == {"==", "!=", "<", ">", "+", "-", "*", "/", "%"}

\* The operands of the generated expressions: an identifier, a negated
\* integer, a negated call and a call with two arguments.
Units ==
    << <<"a">>, <<"-", "5">>, <<"!", "f", "(", "b", ")">>,
       <<"g", "(", "c", ",", "d", ")">> >>

\* The operand at position i of an expression whose first operand is
\* Units[first]: the operands follow one another in the order of Units.
UnitAt(first, i) == Units[((first + i - 2) % Len(Units)) + 1]

RECURSIVE FlatExpressions(_, _)

\* The expressions with exactly k binary operators between operands, the
\* first operand being Units[first].
FlatExpressions(first, k) ==
    IF k = 0 THEN { UnitAt(first, 1) }
    ELSE { e \o <<op>> \o UnitAt(first, k + 1) :
             e \in FlatExpressions(first, k - 1), op \in BinaryOperators }

\* The expressions of the parser's own tests and some more shapes.
ExampleExpressions ==
    { <<"5", "*", "2", "-", "3", "/", "3", ";">>,
      <<"-", "3", "+", "!", "add", "(", "x", ",", "y", ")", "*", "2">>,
      <<"!", "-", "a">>,
      <<"-", "f", "(", "a", ")", "(", "b", ")">>,
      <<"f", "(", "a", "+", "b", "*", "c", ",", "-", "d", "==", "e", ")">>,
      <<"a", "<", "b", "==", "c", ">", "d", "!=", "e", "%", "1">> }

WellFormedExpressions ==
    UNION { FlatExpressions(first, k) :
              first \in 1..Len(Units), k \in 0..MaxOps }
      \cup ExampleExpressions

\* Inputs that are no expression: an operator without its operand, a failed
\* prefix construct before an infix operator, an integer literal out of
\* range, a missing call argument.
MalformedInputs ==
    { <<"-">>, <<"!", ";">>, <<"5", "+">>, <<"a", "*", ";">>,
      <<"if", "+", "1">>, <<"if", "a", "-", "1">>,
      <<HugeLiteral, "+", "1">>, <<"1", "+", HugeLiteral>>,
      <<HugeLiteral>>, <<"f", "(", ",", ")">>, <<"f", "(", "1", ",", ")">>,
      <<"let", "x", ";">>, <<"(", "a">>, <<"+", "a">>, <<"if", "(", ")">> }

ParserInputs ==
    { Toks(l) : l \in WellFormedExpressions \cup MalformedInputs }

\* parse_program has not run yet.
NotParsed == [program |-> None, errors |-> <<>>, panic |-> FALSE]

\* Nothing has been printed yet.
NotPrinted == [printed |-> FALSE, text |-> ""]

\* No line has been read yet.
NoLine ==
    [source |-> <<>>, status |-> "none", errors |-> <<>>, before |-> <<>>,
     result |-> NoObject]

ParserInit ==
    /\ tokens \in ParserInputs
    /\ parsed = NotParsed
    /\ envs = NewHeap.envs
    /\ lines = 0
    /\ crashed = FALSE
    /\ last = NoLine
    /\ lexer = NewLexer(<<>>)
    /\ emitted = <<>>
    /\ printed = NotPrinted

\* Parser::new(lexer) followed by parse_program().
Parse ==
    /\ parsed = NotParsed
    /\ parsed' = parse_program(tokens)
    /\ UNCHANGED <<tokens, envs, lines, crashed, last, lexer, emitted, printed>>

ParserNext == Parse

ParserSpec == ParserInit /\ [][ParserNext]_vars

----------------------------------------------------------------------------
(* Claims about the parser, checked under ParserSpec *)

\* The rung of a binary operator on the ladder
\* EQUALS < LESSGREATER < SUM < PRODUCT.
LadderRank(op) ==
    CASE op \in {"==", "!="}     -> EQUALS
      [] op \in {"<", ">"}       -> LESSGREATER
      [] op \in {"+", "-"}       -> SUM
      [] op \in {"*", "/", "%"}  -> PRODUCT

\* How many parentheses are open before position i of ts.
Depth(ts, i) ==
    Cardinality({ j \in 1..(i - 1) : ts[j].literal = "(" })
      - Cardinality({ j \in 1..(i - 1) : ts[j].literal = ")" })

\* The positions of the binary operators of ts outside all parentheses: an
\* operator is binary when an operand ends right before it.
TopBinary(ts) ==
    { i \in 2..Len(ts) :
        /\ ts[i].literal \in BinaryOperators
        /\ Depth(ts, i) = 0
        /\ ts[i - 1].literal \notin BinaryOperators \cup {"!", "(", ","} }

Max(S) == CHOOSE m \in S : \A n \in S : n <= m

Min(S) == CHOOSE m \in S : \A n \in S : m <= n

RECURSIVE Ladder(_), LadderArguments(_)

\* The fully parenthesised form the ladder prescribes for the expression ts:
\* the last operator of the lowest rung outside parentheses is the root (so
\* higher rungs bind tighter and equal rungs group to the left); without a
\* binary operator a leading ! or - applies to all that follows (so a call
\* binds tighter than a prefix); what remains is a call or an operand.
Ladder(ts) ==
    LET n == Len(ts)
        ops == TopBinary(ts)
        low == Min({ LadderRank(ts[i].literal) : i \in ops })
        root == Max({ i \in ops : LadderRank(ts[i].literal) = low })
        open == Max({ i \in 1..n : ts[i].literal = "(" /\ Depth(ts, i) = 0 })
    IN CASE ops # {} ->
              "(" \o Ladder(SubSeq(ts, 1, root - 1)) \o " "
                \o ts[root].literal \o " "
                \o Ladder(SubSeq(ts, root + 1, n)) \o ")"
         [] ops = {} /\ ts[1].literal \in {"!", "-"} ->
              "(" \o ts[1].literal \o Ladder(SubSeq(ts, 2, n)) \o ")"
         [] ops = {} /\ ts[1].literal \notin {"!", "-"}
              /\ ts[n].literal = ")" ->
              Ladder(SubSeq(ts, 1, open - 1)) \o "("
                \o LadderArguments(SubSeq(ts, open + 1, n - 1)) \o ")"
         [] OTHER -> ts[1].literal

\* The arguments of a call, split at the commas outside parentheses.
LadderArguments(ts) ==
    LET commas == { i \in 1..Len(ts) :
                      ts[i].literal = "," /\ Depth(ts, i) = 0 }
        c == Min(commas)
    IN IF ts = <<>> THEN ""
       ELSE IF commas = {} THEN Ladder(ts)
            ELSE Ladder(SubSeq(ts, 1, c - 1)) \o ", "
                   \o LadderArguments(SubSeq(ts, c + 1, Len(ts)))

\* The expression of an input without its closing semicolon.
WithoutSemicolon(ts) ==
    IF ts # <<>> /\ ts[Len(ts)].literal = ";"
    THEN SubSeq(ts, 1, Len(ts) - 1) ELSE ts

IsMalformed(ts) == ts \in { Toks(l) : l \in MalformedInputs }

\* C1: every expression built from operands, unary ! and -, calls and the
\* nine binary operators parses without error to the AST whose printed
\* form is the grouping the precedence ladder prescribes.
C1_PrecedenceLadder ==
    (parsed # NotParsed /\ ~IsMalformed(tokens)) =>
        /\ ~parsed.panic
        /\ parsed.errors = <<>>
        /\ to_string(parsed.program) = Ladder(WithoutSemicolon(tokens))

\* C1 witness: the mixed expression of the parser's tests has been parsed.
C1_Witness ==
    /\ tokens = Toks(<<"-", "3", "+", "!", "add", "(", "x", ",", "y", ")",
                       "*", "2">>)
    /\ parsed # NotParsed
    /\ to_string(parsed.program) = "((-3) + ((!add(x, y)) * 2))"

\* C2: parse_program returns a Program and an error list for every input;
\* it never aborts.
C2_ParserNeverAborts == ~parsed.panic

----------------------------------------------------------------------------
(* The read-eval-print loop: repl() of repl/src/main.rs.                   *)
(* One root environment lives across the input lines.  Every line is       *)
(* lexed and parsed; with parse errors they are printed and the loop       *)
(* continues, otherwise the program is evaluated in the root environment   *)
(* and the inspect() of the unwrapped result is printed.  The lines are    *)
(* drawn from Pool.                                                        *)

MaxLines == 2

\* let newAdder = fn(x) { fn(y) { x + y } }; let addTwo = newAdder(2); let addThree = newAdder(3); let x = 10;
Src_Adders ==
    Toks(<<"let", "newAdder", "=", "fn", "(", "x", ")", "{", "fn", "(", "y",
           ")", "{", "x", "+", "y", "}", "}", ";", "let", "addTwo", "=",
           "newAdder", "(", "2", ")", ";", "let", "addThree", "=", "newAdder",
           "(", "3", ")", ";", "let", "x", "=", "10", ";">>)

\* addTwo(7)
Src_AddTwo ==
    Toks(<<"addTwo", "(", "7", ")">>)

\* addThree(7)
Src_AddThree ==
    Toks(<<"addThree", "(", "7", ")">>)

\* let peek = fn() { hidden }; let caller = fn() { let hidden = 1; peek() }; caller()
Src_Caller ==
    Toks(<<"let", "peek", "=", "fn", "(", ")", "{", "hidden", "}", ";", "let",
           "caller", "=", "fn", "(", ")", "{", "let", "hidden", "=", "1", ";",
           "peek", "(", ")", "}", ";", "caller", "(", ")">>)

\* let hidden = 4;
Src_Hidden ==
    Toks(<<"let", "hidden", "=", "4", ";">>)

\* let counter = fn(x) { let step = x + 1; fn() { step } }; counter(5)()
Src_Counter ==
    Toks(<<"let", "counter", "=", "fn", "(", "x", ")", "{", "let", "step", "=",
           "x", "+", "1", ";", "fn", "(", ")", "{", "step", "}", "}", ";",
           "counter", "(", "5", ")", "(", ")">>)

\* let mk = fn() { fn() { late } }; let g = mk(); let late = 5;
Src_MakeLate ==
    Toks(<<"let", "mk", "=", "fn", "(", ")", "{", "fn", "(", ")", "{", "late",
           "}", "}", ";", "let", "g", "=", "mk", "(", ")", ";", "let", "late",
           "=", "5", ";">>)

\* g()
Src_CallLate ==
    Toks(<<"g", "(", ")">>)

\* if (true) { let leak = 5; }
Src_IfLet ==
    Toks(<<"if", "(", "true", ")", "{", "let", "leak", "=", "5", ";", "}">>)

\* { let inner = 5; }
Src_BlockLet ==
    Toks(<<"{", "let", "inner", "=", "5", ";", "}">>)

\* fn() { let local = 5; }()
Src_FnLet ==
    Toks(<<"fn", "(", ")", "{", "let", "local", "=", "5", ";", "}", "(", ")">>)

\* leak
Src_Leak ==
    Toks(<<"leak">>)

\* let n = 1; { let n = n + 1; n }
Src_BlockTwice ==
    Toks(<<"let", "n", "=", "1", ";", "{", "let", "n", "=", "n", "+", "1", ";",
           "n", "}">>)

\* foo + bar
Src_ErrInfixBoth ==
    Toks(<<"foo", "+", "bar">>)

\* 1 + bar
Src_ErrInfixRight ==
    Toks(<<"1", "+", "bar">>)

\* -foo
Src_ErrPrefix ==
    Toks(<<"-", "foo">>)

\* if (foo) { 1 } else { 2 }
Src_ErrIf ==
    Toks(<<"if", "(", "foo", ")", "{", "1", "}", "else", "{", "2", "}">>)

\* foo(bar)
Src_ErrCallee ==
    Toks(<<"foo", "(", "bar", ")">>)

\* fn(a, b) { a }(foo, bar)
Src_ErrArgs ==
    Toks(<<"fn", "(", "a", ",", "b", ")", "{", "a", "}", "(", "foo", ",",
           "bar", ")">>)

\* fn(a, b) { a }(1, bar)
Src_ErrArgSecond ==
    Toks(<<"fn", "(", "a", ",", "b", ")", "{", "a", "}", "(", "1", ",", "bar",
           ")">>)

\* let v = foo + 1;
Src_ErrLet ==
    Toks(<<"let", "v", "=", "foo", "+", "1", ";">>)

\* return -true;
Src_ErrReturn ==
    Toks(<<"return", "-", "true", ";">>)

\* (1 + true) * bar
Src_ErrNested ==
    Toks(<<"(", "1", "+", "true", ")", "*", "bar">>)

\* let foo = 1;
Src_Foo ==
    Toks(<<"let", "foo", "=", "1", ";">>)

\* let wrapped = fn() { return if (true) { return 1; }; }();
Src_ReturnIf ==
    Toks(<<"let", "wrapped", "=", "fn", "(", ")", "{", "return", "if", "(",
           "true", ")", "{", "return", "1", ";", "}", ";", "}", "(", ")", ";">>)

\* fn() { return 1; }()
Src_ReturnPlain ==
    Toks(<<"fn", "(", ")", "{", "return", "1", ";", "}", "(", ")">>)

\* fn(c) { if (c) { let c = false; return 1; }; return 2; }(true)
Src_ReturnTwice ==
    Toks(<<"fn", "(", "c", ")", "{", "if", "(", "c", ")", "{", "let", "c", "=",
           "false", ";", "return", "1", ";", "}", ";", "return", "2", ";", "}",
           "(", "true", ")">>)

\* fn() { { return 1; } return 2; }()
Src_ReturnNested ==
    Toks(<<"fn", "(", ")", "{", "{", "return", "1", ";", "}", "return", "2",
           ";", "}", "(", ")">>)

\* let a = 1; return a; let b = 2;
Src_TopReturn ==
    Toks(<<"let", "a", "=", "1", ";", "return", "a", ";", "let", "b", "=", "2",
           ";">>)

\* let c = 3; c + nope; let d = 4;
Src_TopError ==
    Toks(<<"let", "c", "=", "3", ";", "c", "+", "nope", ";", "let", "d", "=",
           "4", ";">>)

\* let e = 1; e + 1
Src_TopLast ==
    Toks(<<"let", "e", "=", "1", ";", "e", "+", "1">>)

\* return if (true) { return 7; };
Src_TopReturnIf ==
    Toks(<<"return", "if", "(", "true", ")", "{", "return", "7", ";", "}", ";">>)

\* let y = 1;
Src_LetY ==
    Toks(<<"let", "y", "=", "1", ";">>)

\* let y = 2;
Src_LetYAgain ==
    Toks(<<"let", "y", "=", "2", ";">>)

\* y
Src_ReadY ==
    Toks(<<"y">>)

\* let y = 3; let z 5;
Src_HalfBad ==
    Toks(<<"let", "y", "=", "3", ";", "let", "z", "5", ";">>)

\* let f = fn() { let y = 4; y }; f()
Src_CallLetY ==
    Toks(<<"let", "f", "=", "fn", "(", ")", "{", "let", "y", "=", "4", ";",
           "y", "}", ";", "f", "(", ")">>)

Pool ==
    { Src_LetY, Src_LetYAgain, Src_ReadY, Src_HalfBad, Src_CallLetY,
      Src_Adders, Src_AddTwo, Src_AddThree, Src_Caller, Src_Hidden,
      Src_Counter, Src_MakeLate, Src_CallLate, Src_IfLet, Src_BlockLet,
      Src_FnLet, Src_Leak, Src_BlockTwice, Src_ErrInfixBoth,
      Src_ErrInfixRight, Src_ErrPrefix, Src_ErrIf, Src_ErrCallee,
      Src_ErrArgs, Src_ErrArgSecond, Src_ErrLet, Src_ErrReturn,
      Src_ErrNested, Src_Foo, Src_ReturnIf, Src_ReturnPlain,
      Src_ReturnTwice, Src_ReturnNested, Src_TopReturn, Src_TopError,
      Src_TopLast, Src_TopReturnIf }


\* Lexer::new, Parser::new and parse_program for every line of the pool.
ParsedPool == [src \in Pool |-> parse_program(src)]

\* What the loop records of a line: its source, how it ended ("errors":
\* parse errors were printed; "printed": the result was printed; "panic":
\* the process aborted), the parse errors, the heap before the line and
\* the object evaluate_program returned.
Line(source, status, errors, before, result) ==
    [source |-> source, status |-> status, errors |-> errors,
     before |-> before, result |-> result]

Init ==
    /\ tokens = <<>>
    /\ parsed = NotParsed
    /\ envs = NewHeap.envs
    /\ lines = 0
    /\ crashed = FALSE
    /\ last = NoLine
    /\ lexer = NewLexer(<<>>)
    /\ emitted = <<>>
    /\ printed = NotPrinted

\* Lines 32-39 of repl() with the test of the error list left out: the
\* Program is evaluated whatever the parser reported.
LineParsed_ignoring_errors(src, p) ==
    LET Printed(evaluated) ==
            IF evaluated.h.panic \/ evaluated.obj = NoObject
            THEN /\ crashed' = TRUE
                 /\ envs' = envs
                 /\ last' = Line(src, "panic", <<>>, envs, NoObject)
            ELSE /\ crashed' = FALSE
                 /\ envs' = evaluated.h.envs
                 /\ last' = Line(src, IF p.errors # <<>> THEN "errors"
                                      ELSE "printed",
                                 p.errors, envs, evaluated.obj)
    IN IF p.panic
       THEN /\ crashed' = TRUE
            /\ envs' = envs
            /\ last' = Line(src, "panic", p.errors, envs, NoObject)
       ELSE Printed(evaluate_program(p.program, RootEnv,
                                     [envs |-> envs, panic |-> FALSE]))

\* Lines 32-39 of repl() for the line src that parse_program turned into p.
LineParsed(src, p) ==
    LET Printed(evaluated) ==
            IF evaluated.h.panic \/ evaluated.obj = NoObject
            THEN /\ crashed' = TRUE
                 /\ envs' = envs
                 /\ last' = Line(src, "panic", <<>>, envs, NoObject)
            ELSE /\ crashed' = FALSE
                 /\ envs' = evaluated.h.envs
                 /\ last' = Line(src, "printed", <<>>, envs, evaluated.obj)
    IN CASE p.panic ->
               /\ crashed' = TRUE
               /\ envs' = envs
               /\ last' = Line(src, "panic", p.errors, envs, NoObject)
         [] ~p.panic /\ p.errors # <<>> ->
               /\ crashed' = FALSE
               /\ envs' = envs
               /\ last' = Line(src, "errors", p.errors, envs, NoObject)
         [] OTHER ->
               Printed(evaluate_program(p.program, RootEnv,
                                        [envs |-> envs, panic |-> FALSE]))

\* One iteration of the loop of repl() on the input line src.
ReplLine(src) ==
    /\ ~crashed
    /\ lines < MaxLines
    /\ lines' = lines + 1
    /\ LineParsed(src, ParsedPool[src])
    /\ UNCHANGED <<tokens, parsed, lexer, emitted, printed>>

Next == \E src \in Pool : ReplLine(src)

Spec == Init /\ [][Next]_vars

----------------------------------------------------------------------------
(* Claims about the evaluator, checked under Spec on the line just read *)

\* The root environment's bindings before the last line.
RootBefore == last.before[RootEnv]

\* The heap the last line was evaluated in.
HeapBefore == [envs |-> last.before, panic |-> FALSE]

\* The first statement of the last line.
FirstStatement == ParsedPool[last.source].program.statements[1]

\* The expression a statement evaluates: the value of a let, the value of a
\* return, the expression of an expression statement.
StatementExpression(stmt) ==
    CASE stmt.node_type = "LET_STATEMENT" -> stmt.value
      [] stmt.node_type = "RETURN_STATEMENT" -> stmt.return_value
      [] stmt.node_type = "EXPRESSION_STATEMENT" -> stmt.expression
      [] OTHER -> None

\* C3: a function resolves its free identifiers where its literal was
\* evaluated: addTwo(7) is 9 and addThree(7) is 10 whatever x is at the root,
\* a closure sees the locals of the call that made it, and a callee sees the
\* root's binding of a name, never the caller's local one.
C3_LexicalScope ==
    last.status = "printed" =>
        /\ (last.source = Src_AddTwo /\ "addTwo" \in DOMAIN RootBefore)
              => last.result = Integer(9)
        /\ (last.source = Src_AddThree /\ "addThree" \in DOMAIN RootBefore)
              => last.result = Integer(10)
        /\ last.source = Src_Counter => last.result = Integer(6)
        /\ last.source = Src_Caller =>
              last.result = IF "hidden" \in DOMAIN RootBefore
                            THEN RootBefore["hidden"]
                            ELSE Error("identifier not found: hidden")

\* C3 witness: addTwo(7) printed 9 while x is 10 at the root.
C3_Witness ==
    /\ last.source = Src_AddTwo
    /\ last.status = "printed"
    /\ last.result = Integer(9)
    /\ "x" \in DOMAIN envs[RootEnv]
    /\ envs[RootEnv]["x"] = Integer(10)

\* C4: a closure made inside a function body finds a name that was bound at
\* the root after the closure was made.
C4_ChainLookup ==
    ( /\ last.source = Src_CallLate
      /\ last.status = "printed"
      /\ "g" \in DOMAIN RootBefore
      /\ "late" \in DOMAIN RootBefore )
        => last.result = RootBefore["late"]

\* C5: a let inside a bare block, inside the block of an if or inside a
\* function body leaves the enclosing environment with exactly the bindings
\* it had.
C5_BlockScope ==
    (last.status = "printed"
       /\ last.source \in {Src_BlockLet, Src_IfLet, Src_FnLet})
        => envs[RootEnv] = RootBefore

\* C6: a block evaluates its first statement once:
\* let n = 1; { let n = n + 1; n } yields 2.
C6_SinglePass ==
    (last.status = "printed" /\ last.source = Src_BlockTwice)
        => last.result = Integer(2)

\* The subexpressions an expression evaluates first, in evaluation order.
DirectSubexpressions(exp) ==
    CASE exp.node_type = "PREFIX_EXPRESSION" -> <<exp.right>>
      [] exp.node_type = "INFIX_EXPRESSION" -> <<exp.left, exp.right>>
      [] exp.node_type = "IF_EXPRESSION" -> <<exp.condition>>
      [] exp.node_type = "CALL_EXPRESSION" -> <<exp.function>> \o exp.arguments
      [] OTHER -> <<>>

RECURSIVE FirstError(_, _, _, _)

\* The first Error among the values of exps from index i on, evaluated in
\* order; NoObject when none of them is an Error.
FirstError(exps, i, env, h) ==
    LET ErrorOf(evaluated) ==
            CASE evaluated.h.panic -> NoObject
              [] ~evaluated.h.panic /\ evaluated.obj.type = "ERROR" ->
                   evaluated.obj
              [] OTHER -> FirstError(exps, i + 1, env, evaluated.h)
    IN IF i > Len(exps) THEN NoObject
       ELSE ErrorOf(evaluate_expression(exps[i], env, h))

\* The first Error among the direct subexpressions of the expression of the
\* last line's first statement.
LineError ==
    FirstError(DirectSubexpressions(StatementExpression(FirstStatement)), 1,
               RootEnv, HeapBefore)

C8_CallValueIsPlain ==
    (last.status = "printed"
       /\ StatementExpression(FirstStatement) # None
       /\ StatementExpression(FirstStatement).node_type = "CALL_EXPRESSION")
        => evaluate_expression(StatementExpression(FirstStatement), RootEnv,
                               HeapBefore).obj.type # "RETURN_VALUE"

\* C9: the first return a function body reaches, in a nested block or not,
\* ends the call with its value: each of the three calls yields 1.
C9_ReturnEndsCall ==
    (last.status = "printed"
       /\ last.source \in {Src_ReturnPlain, Src_ReturnNested, Src_ReturnTwice})
        => last.result = Integer(1)

\* The statements of the last line.
LineStatements == ParsedPool[last.source].program.statements

RECURSIVE HeapAfter(_)

\* The heap after the first n statements of the last line, each evaluated
\* once and in order.
HeapAfter(n) ==
    IF n = 0 THEN HeapBefore
    ELSE evaluate_statement(LineStatements[n], RootEnv, HeapAfter(n - 1)).h

\* The value of the n-th statement of the last line, evaluated after the
\* statements before it.
ValueOf(n) ==
    evaluate_statement(LineStatements[n], RootEnv, HeapAfter(n - 1)).obj

\* The statements of the last line whose value is a ReturnValue or an Error.
Stops ==
    { n \in 1..Len(LineStatements) :
        ValueOf(n).type \in {"RETURN_VALUE", "ERROR"} }

\* The statement that ends the last line: the first of Stops, or the last
\* statement.
StopAt == IF Stops = {} THEN Len(LineStatements) ELSE Min(Stops)

RECURSIVE SameObject(_, _)

\* Two objects are the same: the same type and the same content.
SameObject(a, b) ==
    /\ a.type = b.type
    /\ IF a.type = "RETURN_VALUE" THEN SameObject(a.value, b.value)
       ELSE a = b

\* C10: the line's result is the inner value of the first ReturnValue, or
\* the first Error, or the value of the last statement, and the environments
\* are those left by the statements up to that one.
C10_ProgramStopsAtFirst ==
    last.status = "printed" =>
        /\ SameObject(last.result,
                      IF ValueOf(StopAt).type = "RETURN_VALUE"
                      THEN ValueOf(StopAt).value
                      ELSE ValueOf(StopAt))
        /\ envs = HeapAfter(StopAt).envs

\* C10 witness: let a = 1; return a; let b = 2; printed 1 and bound a only.
C10_Witness ==
    /\ last.source = Src_TopReturn
    /\ last.status = "printed"
    /\ StopAt = 2
    /\ last.result = Integer(1)
    /\ "a" \in DOMAIN envs[RootEnv]
    /\ "b" \notin DOMAIN envs[RootEnv]

----------------------------------------------------------------------------
(* Lexer specification: a caller makes a Lexer over one of LexerInputs and *)
(* polls next_token, also past the end of the input.                       *)

MaxInput == 4

MaxPolls == 6

\* One character of each class the lexer tells apart: the two characters
\* that may pair with `=`, a letter, the quote, whitespace, NUL and a letter
\* of two bytes.
LexerAlphabet == {"=", "!", "a", "\"", " ", NUL, WideLetter}

RECURSIVE CharSeqs(_)

\* The inputs of exactly n characters of LexerAlphabet.
CharSeqs(n) ==
    IF n = 0 THEN { <<>> }
    ELSE { Append(s, c) : s \in CharSeqs(n - 1), c \in LexerAlphabet }

\* Inputs of the lexer's own test and some more lexemes.
ExampleInputs ==
    { Chars("let five = 5;"), Chars("10 == 10; 10 != 9;"),
      Chars("!-/*5; 5 < 10 > 5;"), Chars("\"foo bar\" \"foobar\""),
      Chars("if (5 < 10) { return true; } else { return false; }"),
      Chars("let add = fn(x, y) { x + y; }; 7 % 2 @"),
      Chars("a === b !== c"), Chars("\"open"), Chars("a1=\"b\"c"),
      Chars("1a!=2"), Chars("\"a\"1 ==b"), Chars("=a2;!b") }

LexerInputs == UNION { CharSeqs(n) : n \in 0..MaxInput } \cup ExampleInputs

LexerInit ==
    /\ lexer \in { NewLexer(input) : input \in LexerInputs }
    /\ emitted = <<>>
    /\ tokens = <<>>
    /\ parsed = NotParsed
    /\ envs = NewHeap.envs
    /\ lines = 0
    /\ crashed = FALSE
    /\ last = NoLine
    /\ printed = NotPrinted

\* The caller's view of one call: the lexer after it and, when the call
\* returned, its token.
Polled(r) ==
    /\ lexer' = r.l
    /\ emitted' = IF Stuck(r.l) THEN emitted ELSE Append(emitted, r.tok)

\* One call of next_token.
Poll ==
    /\ ~Stuck(lexer)
    /\ Len(emitted) < MaxPolls
    /\ Polled(lexer_next_token(lexer))
    /\ UNCHANGED <<tokens, parsed, envs, lines, crashed, last, printed>>

LexerNext == Poll

LexerSpec == LexerInit /\ [][LexerNext]_vars

----------------------------------------------------------------------------
(* Claims about the lexer, checked under LexerSpec *)

\* The lexer has read past the end of its input.
PastEnd(l) == l.position >= ByteLen(l.input, 1)

\* The input holds only characters of one byte and no NUL.
PlainInput(input) ==
    \A i \in 1..Len(input) : input[i] # NUL /\ input[i] # WideLetter

\* The number of quotes in the input.
Quotes(input) == Cardinality({ i \in 1..Len(input) : input[i] = "\"" })

\* C12: the lexer terminates on every finite input: every call of
\* next_token returns, and on a plain input whose last string literal is
\* never closed the calls up to the end of the input return an ILLEGAL token
\* for it and EOF after it.
C12_LexerTerminates ==
    /\ ~lexer.hang
    /\ (PlainInput(lexer.input) /\ Quotes(lexer.input) % 2 = 1
          /\ PastEnd(lexer) /\ Len(emitted) >= 2)
         => \E i \in 1..(Len(emitted) - 1) :
               /\ emitted[i].token_type = "ILLEGAL"
               /\ emitted[i + 1] = EOFToken

RECURSIVE NextQuote(_, _)

\* The index of the first quote at or after index i, Len(input) + 1 if none.
NextQuote(input, i) ==
    IF i > Len(input) \/ input[i] = "\"" THEN i ELSE NextQuote(input, i + 1)

RECURSIVE Greedy(_, _)

\* The operator tokens of a plain input whose string literals are closed:
\* outside the string literals `=` and `!` pair with a following `=`
\* greedily from the left.
Greedy(input, i) ==
    IF i > Len(input) THEN <<>>
    ELSE IF input[i] = "\"" THEN Greedy(input, NextQuote(input, i + 1) + 1)
    ELSE IF input[i] \in {"=", "!"} /\ i < Len(input) /\ input[i + 1] = "="
    THEN <<Token(IF input[i] = "=" THEN "EQ" ELSE "NOT_EQ",
                 input[i] \o "=")>> \o Greedy(input, i + 2)
    ELSE IF input[i] = "=" THEN <<Token("ASSIGN", "=")>> \o Greedy(input, i + 1)
    ELSE IF input[i] = "!" THEN <<Token("BANG", "!")>> \o Greedy(input, i + 1)
    ELSE Greedy(input, i + 1)

\* The tokens of `=` and `!` among the tokens returned.
OperatorTokens(toks) ==
    SelectSeq(toks, LAMBDA t :
                 t.token_type \in {"EQ", "NOT_EQ", "ASSIGN", "BANG"})

IsPrefix(s, t) == Len(s) <= Len(t) /\ s = SubSeq(t, 1, Len(s))

\* C17: on a plain input whose string literals are closed the tokens of `=`
\* and `!` returned so far are the first ones of the greedy pairing from the
\* left outside the string literals, and all of them once the end of the
\* input is passed: adjacent `==` and `!=` are one EQ or NOT_EQ token with
\* the two-character literal, a lone `=` or `!` is ASSIGN or BANG.
C17_TwoCharOperators ==
    (PlainInput(lexer.input) /\ Quotes(lexer.input) % 2 = 0)
      => /\ IsPrefix(OperatorTokens(emitted), Greedy(lexer.input, 1))
         /\ (PastEnd(lexer) /\ emitted # <<>>)
              => OperatorTokens(emitted) = Greedy(lexer.input, 1)

\* `===` has been read to its end: EQ then ASSIGN.
C17_Witness ==
    /\ lexer.input = <<"=", "=", "=">>
    /\ emitted = <<Token("EQ", "=="), Token("ASSIGN", "="), EOFToken>>

\* C18 as stated: once next_token has returned EOF, every later call returns
\* EOF with the NUL literal.
C18_EOFRepeats ==
    \A i \in DOMAIN emitted : \A j \in DOMAIN emitted :
        (i < j /\ emitted[i].token_type = "EOF") => emitted[j] = EOFToken

\* C18 amended: once next_token has returned EOF with the lexer past the
\* end of its input, the next call returns EOF with the NUL literal and
\* leaves the lexer past the end.
C18_EOFRepeatsPastEnd ==
    [][(emitted # <<>> /\ emitted[Len(emitted)].token_type = "EOF"
          /\ PastEnd(lexer))
         => (emitted' = Append(emitted, EOFToken) /\ PastEnd(lexer'))]_vars

\* EOF has been returned three times in a row after an identifier.
C18_Witness ==
    /\ lexer.input = <<"a">>
    /\ emitted = <<Token("IDENT", "a"), EOFToken, EOFToken, EOFToken>>

----------------------------------------------------------------------------
(* Source specification: one source text is lexed and parsed               *)
(* (Lexer::new, Parser::new, parse_program); a Program that parsed with no *)
(* errors is printed with to_string and the print is lexed and parsed      *)
(* again.                                                                  *)

RECURSIVE Join(_, _)

\* The source of the lexemes from index i on, one space between them.
Join(lexemes, i) ==
    IF i > Len(lexemes) THEN <<>>
    ELSE Chars(lexemes[i])
           \o (IF i < Len(lexemes) THEN <<" ">> ELSE <<>>)
           \o Join(lexemes, i + 1)

\* Sources that parse: every kind of node, programs of several statements.
WellFormedSources ==
    { Chars(""), Chars("x"), Chars("5"), Chars("true"), Chars("\"hello\""),
      Chars("-a"), Chars("!true"), Chars("!-a"), Chars("1 + 2 * 3"),
      Chars("(1 + 2) * 3"), Chars("\"a b\" + \"c\""), Chars("f(a, b)"),
      Chars("f()"), Chars("f(1 + 2, g(3))"), Chars("fn(x, y) { x + y }"),
      Chars("fn() { 1 }"), Chars("fn(x) { x }(2)"),
      Chars("fn(x) { let y = x; return y; }"),
      Chars("if (x) { y }"), Chars("if (5) { 1 } else { 2 }"),
      Chars("if (true) { 1 }"), Chars("if (x < y) { x }"),
      Chars("if (x < y) { x } else { y }"), Chars("if (!x) { y }"),
      Chars("if (f(x)) { y }"), Chars("let x = 5;"), Chars("let x = 5"),
      Chars("let x = 5; let y = x;"), Chars("let f = fn(x) { return x; };"),
      Chars("let f = fn(x) { return x; }; f(1)"), Chars("return 5;"),
      Chars("return a + b;"), Chars("a; b"), Chars("1; 2"), Chars("a; -b"),
      Chars("a; (b)"), Chars("a; !b"), Chars("a + b; c"),
      Chars("let x = 1; x"), Chars("x; let y = 2;"), Chars("{ a }"),
      Chars("return;") }

\* Sources with an opening or a closing bracket that has no partner.
UnmatchedSources ==
    { Chars("(a"), Chars("(a + b"), Chars("((a)"), Chars("f(a"),
      Chars("f(a, b"), Chars("fn(x { x }"), Chars("fn(x, y { x }"),
      Chars("if (a { b }"), Chars("if (a) { b"), Chars("fn(x) { x"),
      Chars("if (a) { b } else { c"), Chars("fn() {"), Chars("{ a"),
      Chars("let f = fn(x) { x + 1"), Chars("a)"), Chars("(a))"),
      Chars("f(a))"), Chars(")"), Chars("a + b)"), Chars("fn(x) { x })"),
      Chars("if (a) { b })"), Chars("a }"), Chars("f(") }

\* Sources in which an expected token is missing.
FailedExpectationSources ==
    { Chars("let x;"), Chars("let x; let y = 1;"), Chars("let x; 5"),
      Chars("let x;;"), Chars("let abc ;"), Chars("let x; x"),
      Chars("let x 5;"), Chars("let = 5;"), Chars("let 5;"),
      Chars("if a) { b }"), Chars("if (a) b"), Chars("fn x) { x }"),
      Chars("fn(x) x"), Chars("f(a; b"), Chars("f(a b)"),
      Chars("fn(x y) { x }"), Chars("\"open") }

\* Function literals with something else than an identifier where a
\* parameter is expected, and some with identifiers only.
ParameterSources ==
    { Chars("fn(1) { 1 }"), Chars("fn(x, 2) { x }"), Chars("fn(x,) { x }"),
      Chars("fn(true) { 1 }"), Chars("fn(x, y, z) { y }"),
      Chars("fn(,) { 1 }"), Chars("let f = fn(a, fn) { a };") }

Sources ==
    WellFormedSources \cup UnmatchedSources \cup FailedExpectationSources
      \cup ParameterSources
      \cup { Join(l, 1) : l \in ExampleExpressions \cup MalformedInputs }
      \cup { Join(l, 1) : l \in UNION { FlatExpressions(first, k) :
                                          first \in 1..Len(Units),
                                          k \in 0..1 } }

SourceInit ==
    /\ lexer \in { NewLexer(source) : source \in Sources }
    /\ emitted = <<>>
    /\ tokens = <<>>
    /\ parsed = NotParsed
    /\ envs = NewHeap.envs
    /\ lines = 0
    /\ crashed = FALSE
    /\ last = NoLine
    /\ printed = NotPrinted

\* The parser polls the lexer to the end of its input and parses; a call
\* of next_token that does not return takes the process with it.
Polling(t) ==
    /\ lexer' = t.l
    /\ IF Stuck(t.l)
       THEN crashed' = TRUE /\ UNCHANGED <<tokens, parsed>>
       ELSE /\ crashed' = FALSE
            /\ tokens' = t.toks
            /\ parsed' = parse_program(t.toks)

\* Lexer::new(source), Parser::new(lexer), parse_program().
ParseSource ==
    /\ ~crashed
    /\ parsed = NotParsed
    /\ Polling(Tokens(lexer.input))
    /\ UNCHANGED <<envs, lines, last, emitted, printed>>

\* program.to_string() of a Program that parsed with no errors, and the
\* same three calls on the string.
Reprint ==
    /\ ~crashed
    /\ parsed # NotParsed
    /\ ~parsed.panic
    /\ parsed.errors = <<>>
    /\ ~printed.printed
    /\ printed' = [printed |-> TRUE, text |-> to_string(parsed.program)]
    /\ Polling(Tokens(Chars(to_string(parsed.program))))
    /\ UNCHANGED <<envs, lines, last, emitted>>

SourceNext == ParseSource \/ Reprint

SourceSpec == SourceInit /\ [][SourceNext]_vars

----------------------------------------------------------------------------
(* Claims about parsing and printing, checked under SourceSpec *)

\* The source has been parsed, the parser did not abort, nothing is printed.
FirstParse == parsed # NotParsed /\ ~parsed.panic /\ ~printed.printed

\* C11: the print of a Program that parsed with no errors parses with no
\* errors to a Program whose print is the same string.
C11_PrintRoundTrip ==
    (printed.printed /\ ~crashed)
      => /\ ~parsed.panic
         /\ parsed.errors = <<>>
         /\ to_string(parsed.program) = printed.text

\* How many tokens of toks have the type token_type.
Count(toks, token_type) ==
    Cardinality({ i \in 1..Len(toks) : toks[i].token_type = token_type })

\* Some closing token has no opening token before it, or some opening
\* token has no closing token after it.
Unmatched(toks, open, close) ==
    \/ Count(toks, open) # Count(toks, close)
    \/ \E n \in 1..Len(toks) :
          Count(SubSeq(toks, 1, n), close) > Count(SubSeq(toks, 1, n), open)

\* C13: a source with an unmatched `(`, `{` or `)` (or `}`) leaves at least
\* one message in the parser's error list.
C13_UnmatchedBracketsReported ==
    (FirstParse /\ (\/ Unmatched(tokens, "LPAREN", "RPAREN")
                    \/ Unmatched(tokens, "LBRACE", "RBRACE")))
      => parsed.errors # <<>>

\* The source begins with `let IDENT ;`.
LetWithoutAssign ==
    /\ Len(tokens) >= 3
    /\ tokens[1].token_type = "LET"
    /\ tokens[2].token_type = "IDENT"
    /\ tokens[3].token_type = "SEMICOLON"

\* C16: for a source that begins with `let IDENT ;` the first message is
\* `expected next token to be ASSIGN, got SEMICOLON instead`, the Program
\* holds no LetStatement for it: its first statement is the one parsed at
\* the `;` after the identifier; for `let x;` alone there are exactly two
\* messages.
C16_LetWithoutAssign ==
    (FirstParse /\ LetWithoutAssign)
      => /\ Len(parsed.errors) >= 2
         /\ parsed.errors[1]
              = "expected next token to be ASSIGN, got SEMICOLON instead"
         /\ parsed.errors[2] = "no prefix parse function for SEMICOLON found"
         /\ parsed.program.statements # <<>>
         /\ parsed.program.statements[1]
              = ExpressionStatement(tokens[3], None)
         /\ Len(tokens) = 3 => Len(parsed.errors) = 2
         /\ Count(tokens, "LET") = 1
              => \A i \in DOMAIN parsed.program.statements :
                    parsed.program.statements[i].node_type # "LET_STATEMENT"

\* `let x;` has been parsed.
C16_Witness ==
    /\ FirstParse
    /\ lexer.input = Chars("let x;")
    /\ Len(parsed.errors) = 2
    /\ Len(parsed.program.statements) = 1

RECURSIVE NodeKinds(_)

\* The kinds of the nodes of a tree.
NodeKinds(node) ==
    LET Of(nodes) == UNION { NodeKinds(nodes[i]) : i \in DOMAIN nodes }
    IN {node.node_type} \cup
       CASE node.node_type \in {"PROGRAM", "BLOCK_STATEMENT"} ->
               Of(node.statements)
         [] node.node_type = "EXPRESSION_STATEMENT" -> Of(<<node.expression>>)
         [] node.node_type = "LET_STATEMENT" -> Of(<<node.value>>)
         [] node.node_type = "RETURN_STATEMENT" -> Of(<<node.return_value>>)
         [] node.node_type = "PREFIX_EXPRESSION" -> Of(<<node.right>>)
         [] node.node_type = "INFIX_EXPRESSION" ->
               Of(<<node.left, node.right>>)
         [] node.node_type = "IF_EXPRESSION" ->
               Of(<<node.condition, node.consequence, node.alternative>>)
         [] node.node_type = "FUNCTION_LITERAL" -> Of(<<node.body>>)
         [] node.node_type = "CALL_EXPRESSION" ->
               Of(<<node.function>> \o node.arguments)
         [] OTHER -> {}

\* C20: a sub-parser whose expectation fails builds no node: a source
\* without any `)` has an argument list or a parameter list that lacks its
\* closing `)` wherever it has one, so its Program holds no CallExpression
\* and no FunctionLiteral.
C20_FailedExpectationBuildsNoNode ==
    (FirstParse /\ Count(tokens, "RPAREN") = 0)
      => /\ "CALL_EXPRESSION" \notin NodeKinds(parsed.program)
         /\ "FUNCTION_LITERAL" \notin NodeKinds(parsed.program)

----------------------------------------------------------------------------
(* Operator specification: the read-eval-print loop reads a line that      *)
(* binds v and w to the values of two operand sources and then a line that *)
(* applies `!`, `if` or a binary operator to them.                         *)

\* Sources of operands: integers, booleans, strings, Null (an if without
\* alternative whose condition fails), a Function and a ReturnValue (an if
\* whose block returns).
OperandSources ==
    {"0", "5", "true", "false", "\"\"", "\"a\"", "if (false) { 1 }",
     "fn(x) { x }", "if (true) { return 1; }"}

\* The tokens of a line of source text.
LineTokens(text) == Tokens(Chars(text)).toks

BindingLine(sv, sw) ==
    LineTokens("let v = " \o sv \o "; let w = " \o sw \o ";")

InfixLine(op) == LineTokens("v " \o op \o " w")

BangLine == LineTokens("!v")

BangBangLine == LineTokens("!!v")

IfLine == LineTokens("if (v) { 1 } else { 2 }")

\* The first line: v and w are bound.
Bind ==
    /\ ~crashed
    /\ lines = 0
    /\ lines' = 1
    /\ \E sv \in OperandSources, sw \in OperandSources :
          LineParsed(BindingLine(sv, sw), parse_program(BindingLine(sv, sw)))
    /\ UNCHANGED <<tokens, parsed, lexer, emitted, printed>>

\* The second line.
Apply(src) ==
    /\ ~crashed
    /\ lines = 1
    /\ lines' = 2
    /\ LineParsed(src, parse_program(src))
    /\ UNCHANGED <<tokens, parsed, lexer, emitted, printed>>

ApplyInfix == \E op \in BinaryOperators : Apply(InfixLine(op))

ApplyBang == Apply(BangLine)

ApplyBangBang == Apply(BangBangLine)

ApplyIf == Apply(IfLine)

OperatorNext == Bind \/ ApplyInfix \/ ApplyBang \/ ApplyBangBang \/ ApplyIf

OperatorSpec == Init /\ [][OperatorNext]_vars

----------------------------------------------------------------------------
(* Claims about operators, checked under OperatorSpec on the second line *)

\* The operands the second line was applied to.
OperandV == RootBefore["v"]

OperandW == RootBefore["w"]

\* The second line has been read and its value printed.
Applied == lines = 2 /\ last.status = "printed"

\* Null and Boolean(false).
Falsy(obj) ==
    obj.type = "NULL" \/ (obj.type = "BOOLEAN" /\ obj.value = FALSE)

\* C14: `!v` is Boolean(true) exactly when v is Null or Boolean(false) and
\* Boolean(false) otherwise, `!!v` is the truthiness of v, and `if (v)`
\* evaluates its consequent exactly when `!v` is false.
C14_Truthiness ==
    Applied =>
      /\ last.source = BangLine => SameObject(last.result, BooleanObj(Falsy(OperandV)))
      /\ last.source = BangBangLine
           => SameObject(last.result, BooleanObj(~Falsy(OperandV)))
      /\ last.source = IfLine
           => SameObject(last.result,
                         IF Falsy(OperandV) THEN Integer(2) ELSE Integer(1))

\* `if (v)` has taken its consequent for v the integer 0.
C14_Witness ==
    /\ Applied
    /\ last.source = IfLine
    /\ SameObject(OperandV, Integer(0))
    /\ SameObject(last.result, Integer(1))

\* The combinations of one kind and an operator that give a value.
GivesValue(kind, op) ==
    \/ kind = "STRING" /\ op = "+"
    \/ kind = "INTEGER"
    \/ kind = "BOOLEAN" /\ op \in {"==", "!="}

\* The second line applied a binary operator.
InfixApplied ==
    Applied /\ \E op \in BinaryOperators : last.source = InfixLine(op)

\* The second line applied a binary operator and the process aborted.
InfixAborted ==
    /\ lines = 2
    /\ last.status = "panic"
    /\ \E op \in BinaryOperators : last.source = InfixLine(op)

\* C15: for a binary operator on two non-Error operands, operands of
\* different kinds give the Error `type mismatch: LKIND op RKIND`; operands
\* of one kind give a value for String `+`, the Integer operators and
\* Boolean `==` and `!=`, and `unknown operator: LKIND op RKIND` otherwise.
\* The one application that gives nothing is an Integer division or
\* remainder by zero, which the specification leaves undefined.
C15_InfixErrors ==
    /\ InfixAborted
         => /\ last.source[2].literal \in {"/", "%"}
            /\ OperandV.type = "INTEGER"
            /\ SameObject(OperandW, Integer(0))
    /\ InfixApplied =>
      LET op == last.source[2].literal
      IN IF OperandV.type # OperandW.type
         THEN SameObject(last.result,
                         Error("type mismatch: " \o OperandV.type \o " "
                                 \o op \o " " \o OperandW.type))
         ELSE IF GivesValue(OperandV.type, op)
         THEN last.result.type # "ERROR"
         ELSE SameObject(last.result,
                         Error("unknown operator: " \o OperandV.type \o " "
                                 \o op \o " " \o OperandW.type))

\* An integer has been compared with a Function.
C15_Witness ==
    /\ InfixApplied
    /\ last.source = InfixLine("<")
    /\ SameObject(OperandV, Integer(5))
    /\ OperandW.type = "FUNCTION"
    /\ SameObject(last.result, Error("type mismatch: INTEGER < FUNCTION"))

----------------------------------------------------------------------------
(* Claims about the read-eval-print loop, checked under Spec *)

\* The names a `let` of the line binds.
LetNames(src) ==
    { src[i + 1].literal :
        i \in { j \in 1..(Len(src) - 1) : src[j].token_type = "LET" } }

\* C19: a line with parse errors is not evaluated and leaves every
\* environment as it was; after a line without parse errors every binding
\* of the root environment is still there, with the value it had unless the
\* line holds a `let` of that name, and a line that is the name alone
\* prints that value.
C19_BindingsPersist ==
    (lines > 0 /\ ~crashed) =>
      /\ last.status = "errors"
           => (last.errors # <<>> /\ envs = last.before
                 /\ last.result = NoObject)
      /\ last.status = "printed" => last.errors = <<>>
      /\ \A name \in DOMAIN RootBefore :
            /\ name \in DOMAIN envs[RootEnv]
            /\ name \notin LetNames(last.source)
                 => SameObject(envs[RootEnv][name], RootBefore[name])
      /\ (last.source = Src_ReadY /\ "y" \in DOMAIN RootBefore)
           => SameObject(last.result, RootBefore["y"])

\* After `let y = 1;` the line `let y = 3; let z 5;` was read: its parse
\* errors were printed and y is still 1.
C19_Witness ==
    /\ lines = 2
    /\ last.source = Src_HalfBad
    /\ last.status = "errors"
    /\ "y" \in DOMAIN RootBefore
    /\ "y" \in DOMAIN envs[RootEnv]
    /\ SameObject(RootBefore["y"], Integer(1))
    /\ SameObject(envs[RootEnv]["y"], Integer(1))

----------------------------------------------------------------------------
(* The loop of repl() over lines of source text that call functions, bind
   names, and hold empty blocks and empty programs. *)

\* The line that binds x, y and z at the root.
Line_Bind == LineTokens("let x = 1; let y = 2; let z = 3;")

\* f has a parameter named like a binding of the root, and binds two more
\* such names in its body.
Line_F ==
    LineTokens("let f = fn(x) { let y = x + 10; let z = y; z }; f(5)")

Line_Sub == LineTokens("fn(a, b) { a - b }(7, 2)")

\* h binds t only when its argument is truthy.
Line_H == LineTokens("let h = fn(a) { if (a) { let t = 1; }; t }; h(true)")

Line_HTwice ==
    LineTokens("let h = fn(a) { if (a) { let t = 1; }; t }; "
               \o "h(true); h(false)")

\* c is a closure over the n of one call, and binds n in its body.
Line_MakeC ==
    LineTokens("let c = fn(n) { fn(m) { let k = n + m; let n = k; n } }(3);")

Line_C == LineTokens("c(4)")

Line_CTwice == LineTokens("c(4); c(4)")

Line_LetOne == LineTokens("let a = 1;")

Line_LetBad == LineTokens("let a = bad;")

Line_LetNext == LineTokens("let a = a + 1;")

Line_BadCallee == LineTokens("bad(if (true) { let w = 1; })")

\* The callee binds w and the argument reads it.
Line_CalleeFirst == LineTokens("if (true) { let w = 1; fn(a) { a } }(w)")

Line_BadArgument == LineTokens("5(bad)")

Line_NotAFunction == LineTokens("5(1)")

Line_BadFirst == LineTokens("fn(a) { a }(bad, if (true) { let w = 1; })")

Line_BadSecond == LineTokens("fn(a) { a }(if (true) { let w = 1; }, bad)")

Line_NotAFunctionAfterArguments ==
    LineTokens("5(if (true) { let w = 1; })")

Line_EmptyBody == LineTokens("fn() {}()")

Line_EmptyConsequence == LineTokens("if (true) {}")

Line_EmptyAlternative == LineTokens("if (false) { 1 } else {}")

Line_BareBlock == LineTokens("{}")

Line_NoArgument == LineTokens("fn(a) { a }()")

Line_OneOfTwo == LineTokens("fn(a, b) { a }(1)")

Line_TwoForOne == LineTokens("fn(a) { a }(1, 2)")

\* A line of blanks; the empty line gives the same tokens.
Line_Blank == LineTokens("  ")

CallLines ==
    {Line_F, Line_Sub, Line_H, Line_HTwice, Line_MakeC, Line_C, Line_CTwice}

LetLines == {Line_LetOne, Line_LetBad, Line_LetNext}

OrderLines ==
    {Line_CalleeFirst, Line_BadCallee, Line_BadArgument, Line_NotAFunction,
     Line_BadFirst, Line_BadSecond, Line_NotAFunctionAfterArguments}

EmptyBlockLines ==
    {Line_EmptyBody, Line_EmptyConsequence, Line_EmptyAlternative,
     Line_BareBlock}

ArityLines == {Line_NoArgument, Line_OneOfTwo, Line_TwoForOne}

EmptyLines == {Line_Blank}

EvalPool ==
    {Line_Bind} \cup CallLines \cup LetLines \cup OrderLines
        \cup EmptyBlockLines \cup ArityLines \cup EmptyLines

\* Lines 29-31 of repl() for every line of EvalPool.
ParsedEvalPool == [src \in EvalPool |-> parse_program(src)]

\* One iteration of the loop of repl() on the line src of EvalPool.
ReadLine(src) ==
    /\ ~crashed
    /\ lines < MaxLines
    /\ lines' = lines + 1
    /\ LineParsed(src, ParsedEvalPool[src])
    /\ UNCHANGED <<tokens, parsed, lexer, emitted, printed>>

EvalNext == \E src \in EvalPool : ReadLine(src)

EvalSpec == Init /\ [][EvalNext]_vars

----------------------------------------------------------------------------
(* Claims about calls, let statements and empty programs, checked under
   EvalSpec *)

\* The names the let statements of a line bind at the root.
TopLetNames(src) ==
    LET statements == ParsedEvalPool[src].program.statements
    IN { statements[i].name.value :
           i \in { j \in DOMAIN statements :
                     statements[j].node_type = "LET_STATEMENT" } }

\* Two scopes hold the same names with the same objects.
SameScope(a, b) ==
    /\ DOMAIN a = DOMAIN b
    /\ \A name \in DOMAIN a : SameObject(a[name], b[name])

\* C21: a call binds each parameter to the argument at the same position
\* in an environment of its own, where a parameter hides a captured binding
\* of the same name (f(5) is 15 whatever x is at the root, sub(7, 2) is 5);
\* the call changes no environment that existed before it (the caller's
\* keeps its names and values but for the names the line itself binds with
\* let, and the captured one keeps its own), and what one invocation bound
\* is gone in the next (h(false) after h(true) finds no t, c(4) is 7 again
\* after c(4)).
C21_CallFrame ==
    (lines > 0 /\ last.status = "printed" /\ last.source \in CallLines) =>
      /\ \A e \in DOMAIN last.before :
            e # RootEnv => SameScope(envs[e], last.before[e])
      /\ DOMAIN envs[RootEnv]
           = DOMAIN RootBefore \cup TopLetNames(last.source)
      /\ \A name \in DOMAIN RootBefore :
            name \notin TopLetNames(last.source)
              => SameObject(envs[RootEnv][name], RootBefore[name])
      /\ last.source = Line_F => SameObject(last.result, Integer(15))
      /\ last.source = Line_Sub => SameObject(last.result, Integer(5))
      /\ last.source = Line_H => SameObject(last.result, Integer(1))
      /\ last.source = Line_HTwice
           => SameObject(last.result, Error("identifier not found: t"))
      /\ (last.source \in {Line_C, Line_CTwice}
            /\ last.before = <<EmptyScope>>)
           => SameObject(last.result, Error("identifier not found: c"))
      /\ (last.source \in {Line_C, Line_CTwice}
            /\ "c" \in DOMAIN RootBefore)
           => SameObject(last.result, Integer(7))

\* After x, y and z were bound at the root, f(5) gave 15 and the root still
\* holds x = 1, y = 2 and z = 3.
C21_Witness ==
    /\ lines = 2
    /\ last.source = Line_F
    /\ last.status = "printed"
    /\ SameObject(last.result, Integer(15))
    /\ DOMAIN envs[RootEnv] = {"x", "y", "z", "f"}
    /\ SameObject(envs[RootEnv]["x"], Integer(1))
    /\ SameObject(envs[RootEnv]["y"], Integer(2))
    /\ SameObject(envs[RootEnv]["z"], Integer(3))

\* The value expression of the let statement that is the last line, and
\* what it evaluates to in the environments the line started with.
LetValueExpression == ParsedEvalPool[last.source].program.statements[1].value

LetValue ==
    EvalFn("evaluate_expression", LetValueExpression, RootEnv, HeapBefore).obj

\* C22: a let statement whose value is an Error yields that Error and
\* leaves every environment as it was (a stays unbound, or keeps the value
\* it had); any other value is bound to the name, in place of what the name
\* was bound to, nothing else changes, and the statement yields Null.
C22_LetBindsOrPropagates ==
    (lines > 0 /\ last.status = "printed" /\ last.source \in LetLines) =>
      /\ LetValue.type = "ERROR" =>
           /\ SameObject(last.result, LetValue)
           /\ Len(envs) = Len(last.before)
           /\ \A e \in DOMAIN envs : SameScope(envs[e], last.before[e])
      /\ LetValue.type # "ERROR" =>
           /\ SameObject(last.result, Null)
           /\ DOMAIN envs[RootEnv] = DOMAIN RootBefore \cup {"a"}
           /\ SameObject(envs[RootEnv]["a"], LetValue)
           /\ \A name \in DOMAIN RootBefore \ {"a"} :
                 SameObject(envs[RootEnv][name], RootBefore[name])
      /\ last.source = Line_LetBad
           => SameObject(last.result, Error("identifier not found: bad"))
      /\ (last.source = Line_LetNext /\ "a" \in DOMAIN RootBefore
            /\ RootBefore["a"].type = "INTEGER")
           => SameObject(envs[RootEnv]["a"],
                         Integer(RootBefore["a"].value + 1))
      /\ (last.source = Line_LetNext /\ "a" \notin DOMAIN RootBefore)
           => /\ SameObject(last.result, Error("identifier not found: a"))
              /\ "a" \notin DOMAIN envs[RootEnv]

\* After `let a = 1;` the line `let a = bad;` gave the Error of bad and a
\* is still 1.
C22_Witness ==
    /\ lines = 2
    /\ last.source = Line_LetBad
    /\ last.status = "printed"
    /\ SameObject(last.result, Error("identifier not found: bad"))
    /\ "a" \in DOMAIN RootBefore
    /\ SameObject(RootBefore["a"], Integer(1))
    /\ "a" \in DOMAIN envs[RootEnv]
    /\ SameObject(envs[RootEnv]["a"], Integer(1))

\* The last line left w bound to 1 at the root where it was not bound.
BoundW ==
    /\ "w" \notin DOMAIN RootBefore
    /\ "w" \in DOMAIN envs[RootEnv]
    /\ SameObject(envs[RootEnv]["w"], Integer(1))

\* The last line left w unbound at the root.
UnboundW == "w" \notin DOMAIN RootBefore /\ "w" \notin DOMAIN envs[RootEnv]

\* C23: the callee is evaluated before the arguments (an argument reads
\* the w the callee bound) and the arguments from left to right, stopping
\* at the first Error (the w of an argument before the failing one is
\* bound, the w of an argument after it is not); the call's value is the
\* callee's Error, else the first argument's Error, else
\* `not a function: KIND` for a callee that is not a Function, which is
\* found out after the arguments were evaluated.
C23_CallOrder ==
    (lines > 0 /\ last.status = "printed" /\ last.source \in OrderLines
       /\ "w" \notin DOMAIN RootBefore) =>
      /\ last.source = Line_CalleeFirst
           => SameObject(last.result, Integer(1)) /\ BoundW
      /\ last.source = Line_BadCallee
           => SameObject(last.result, Error("identifier not found: bad"))
      /\ last.source = Line_BadArgument
           => SameObject(last.result, Error("identifier not found: bad"))
      /\ last.source = Line_NotAFunction
           => SameObject(last.result, Error("not a function: INTEGER"))
      /\ last.source = Line_BadFirst
           => /\ SameObject(last.result, Error("identifier not found: bad"))
              /\ UnboundW
      /\ last.source = Line_BadSecond
           => /\ SameObject(last.result, Error("identifier not found: bad"))
              /\ BoundW
      /\ last.source = Line_NotAFunctionAfterArguments
           => /\ SameObject(last.result, Error("not a function: INTEGER"))
              /\ BoundW

\* The call fn(a) { a }(if (true) { let w = 1; }, bad) gave the Error of
\* its second argument after its first argument bound w.
C23_Witness ==
    /\ lines > 0
    /\ last.source = Line_BadSecond
    /\ last.status = "printed"
    /\ SameObject(last.result, Error("identifier not found: bad"))
    /\ BoundW

----------------------------------------------------------------------------
(* Claim C24, checked under LexerSpec *)

\* The character at the cursor position: NUL at or past the end.
CharAt(input, position) ==
    IF position < Len(input) THEN input[position + 1] ELSE NUL

RECURSIVE Lexemes(_, _, _)

\* The characters of the lexemes of a plain input from index i on, in
\* source order: the whitespace outside the string literals and the quotes
\* are left out.
Lexemes(input, i, in_string) ==
    IF i > Len(input) THEN ""
    ELSE IF input[i] = "\"" THEN Lexemes(input, i + 1, ~in_string)
    ELSE IF ~in_string /\ is_whitespace(input[i])
    THEN Lexemes(input, i + 1, in_string)
    ELSE input[i] \o Lexemes(input, i + 1, in_string)

RECURSIVE Literals(_, _)

\* The literals of the tokens from index i on, one after the other, EOF
\* left out.
Literals(toks, i) ==
    IF i > Len(toks) THEN ""
    ELSE IF toks[i].token_type = "EOF" THEN Literals(toks, i + 1)
    ELSE toks[i].literal \o Literals(toks, i + 1)

\* C24: whenever next_token has returned, read_position = position + 1 and
\* ch is the input character at position, NUL at or past the end; and on a
\* plain input whose string literals are closed the literals of the tokens
\* returned so far, one after the other, are the first characters of the
\* input's lexemes in source order, and all of them once the end of the
\* input is passed: no character is skipped or read twice.
C24_CursorsAndLexemes ==
    ~Stuck(lexer) =>
      /\ lexer.read_position = lexer.position + 1
      /\ lexer.ch = CharAt(lexer.input, lexer.position)
      /\ (PlainInput(lexer.input) /\ Quotes(lexer.input) % 2 = 0)
           => /\ IsPrefix(Literals(emitted, 1), Lexemes(lexer.input, 1, FALSE))
              /\ (PastEnd(lexer) /\ emitted # <<>>)
                   => Literals(emitted, 1) = Lexemes(lexer.input, 1, FALSE)

\* `a1="b"c` has been read to its end: an identifier, a number, an
\* operator, a string and an identifier, each directly after the other.
C24_Witness ==
    /\ lexer.input = Chars("a1=\"b\"c")
    /\ ~Stuck(lexer)
    /\ PastEnd(lexer)
    /\ emitted = <<Token("IDENT", "a"), Token("INT", "1"),
                   Token("ASSIGN", "="), Token("STRING", "b"),
                   Token("IDENT", "c"), EOFToken>>

----------------------------------------------------------------------------
(* Claims about the nodes the parser builds, checked under SourceSpec *)

RECURSIVE Descendants(_)

\* The nodes of a tree, each before the nodes below it.
Descendants(node) ==
    LET RECURSIVE Of(_, _)
        Of(nodes, i) ==
            IF i > Len(nodes) THEN <<>>
            ELSE Descendants(nodes[i]) \o Of(nodes, i + 1)
    IN <<node>> \o
       CASE node.node_type \in {"PROGRAM", "BLOCK_STATEMENT"} ->
               Of(node.statements, 1)
         [] node.node_type = "EXPRESSION_STATEMENT" ->
               Of(<<node.expression>>, 1)
         [] node.node_type = "LET_STATEMENT" -> Of(<<node.value>>, 1)
         [] node.node_type = "RETURN_STATEMENT" ->
               Of(<<node.return_value>>, 1)
         [] node.node_type = "PREFIX_EXPRESSION" -> Of(<<node.right>>, 1)
         [] node.node_type = "INFIX_EXPRESSION" ->
               Of(<<node.left, node.right>>, 1)
         [] node.node_type = "IF_EXPRESSION" ->
               Of(<<node.condition, node.consequence, node.alternative>>, 1)
         [] node.node_type = "FUNCTION_LITERAL" -> Of(<<node.body>>, 1)
         [] node.node_type = "CALL_EXPRESSION" ->
               Of(<<node.function>> \o node.arguments, 1)
         [] OTHER -> <<>>

\* The nodes of the Program of the source.
ProgramNodes == Descendants(parsed.program)

\* C25: every node carries the token that introduced it: a PrefixExpression
\* and an InfixExpression the token of their operator, a CallExpression the
\* `(`, a let, return, if and fn node its keyword.
C25_NodeTokens ==
    FirstParse =>
      \A i \in DOMAIN ProgramNodes :
         LET node == ProgramNodes[i]
         IN CASE node.node_type = "PREFIX_EXPRESSION" ->
                    /\ node.token.token_type \in {"BANG", "MINUS"}
                    /\ node.token.literal = node.operator
              [] node.node_type = "INFIX_EXPRESSION" ->
                    /\ node.token.token_type \in InfixTokenTypes
                    /\ node.token.literal = node.operator
              [] node.node_type = "CALL_EXPRESSION" ->
                    node.token.token_type = "LPAREN"
              [] node.node_type = "LET_STATEMENT" ->
                    node.token.token_type = "LET"
              [] node.node_type = "RETURN_STATEMENT" ->
                    node.token.token_type = "RETURN"
              [] node.node_type = "IF_EXPRESSION" ->
                    node.token.token_type = "IF"
              [] node.node_type = "FUNCTION_LITERAL" ->
                    node.token.token_type = "FUNCTION"
              [] OTHER -> TRUE

\* The sources of ParameterSources with something else than an identifier
\* where a parameter is expected.
BadParameterSources ==
    { Chars("fn(1) { 1 }"), Chars("fn(x, 2) { x }"), Chars("fn(x,) { x }"),
      Chars("fn(true) { 1 }"), Chars("fn(,) { 1 }"),
      Chars("let f = fn(a, fn) { a };") }

\* C26: every parameter of a function literal of the Program comes from
\* an IDENT token, and a source with another token where a parameter is
\* expected has a parse error.
C26_ParametersAreIdentifiers ==
    FirstParse =>
      /\ \A i \in DOMAIN ProgramNodes :
            ProgramNodes[i].node_type = "FUNCTION_LITERAL" =>
              \A k \in DOMAIN ProgramNodes[i].parameters :
                 ProgramNodes[i].parameters[k].token.token_type = "IDENT"
      /\ lexer.input \in BadParameterSources => parsed.errors # <<>>

\* C27: a Program that parsed with no errors has no let statement without
\* a value, no return statement without a return value and no expression
\* statement without an expression, at any depth.
C27_NoAbsentExpression ==
    (FirstParse /\ parsed.errors = <<>>) =>
      \A i \in DOMAIN ProgramNodes :
         LET node == ProgramNodes[i]
         IN /\ node.node_type = "LET_STATEMENT"
                 => node.value.node_type # "NONE"
            /\ node.node_type = "RETURN_STATEMENT"
                 => node.return_value.node_type # "NONE"
            /\ node.node_type = "EXPRESSION_STATEMENT"
                 => node.expression.node_type # "NONE"

\* `fn(x) { let y = x; return y; }` parsed with no errors: a let and a
\* return inside a block inside an expression statement, each with its
\* expression.
C27_Witness ==
    /\ FirstParse
    /\ parsed.errors = <<>>
    /\ lexer.input = Chars("fn(x) { let y = x; return y; }")
    /\ Len(ProgramNodes) = 8
    /\ ProgramNodes[2].node_type = "EXPRESSION_STATEMENT"
    /\ ProgramNodes[5].node_type = "LET_STATEMENT"
    /\ ProgramNodes[5].value.node_type = "IDENTIFIER"
    /\ ProgramNodes[7].node_type = "RETURN_STATEMENT"
    /\ ProgramNodes[7].return_value.node_type = "IDENTIFIER"

\* C28: a block with no statements evaluates to Null: the call of
\* `fn() {}`, `if (true) {}`, the empty else block and the bare `{}` each
\* print null.
C28_EmptyBlockGivesNull ==
    (lines > 0 /\ last.source \in EmptyBlockLines) =>
      /\ last.status = "printed"
      /\ SameObject(last.result, Null)

\* C29: a call with fewer or with more arguments than the function has
\* parameters completes with an object.
C29_ArgumentCountMismatch ==
    (lines > 0 /\ last.source \in ArityLines) =>
      /\ last.status = "printed"
      /\ last.result.type # "NONE"

\* C30: a line that parses with no errors to a Program with no statements
\* is evaluated to an object and printed.
C30_EmptyProgramPrints ==
    (lines > 0 /\ ~ParsedEvalPool[last.source].panic
       /\ ParsedEvalPool[last.source].errors = <<>>
       /\ Len(ParsedEvalPool[last.source].program.statements) = 0) =>
      /\ last.status = "printed"
      /\ last.result.type # "NONE"

====
